---- MODULE Spec2Model ----
(***************************************************************************)
(* A model of three parts of the type-checker front end:                   *)
(*   - ast/TreeCopying.cc : Expression::deepCopy and the per-variant       *)
(*     _deepCopy methods, over a heap of AST nodes with identities;        *)
(*   - dsl/Command.cc     : isCommand and Command::patchDSL;               *)
(*   - main/LSPLoop.cc    : the LSP loop, its replies, requests and        *)
(*     diagnostics.                                                        *)
(***************************************************************************)
EXTENDS Integers, Sequences, FiniteSets, TLC

VARIABLES
    heap,       \* the AST nodes: a sequence, a node's identity is its index
    argOrder,   \* the build's evaluation order of constructor arguments
    root,       \* the tree handed to deepCopy / the ClassDef handed to patchDSL
    last,       \* what the last operation was given and what it returned
    copies,     \* the results of the successive deepCopy round trips
    bodies,     \* the ClassDef's body (rhs) after each patchDSL
    lsp,        \* the members of the LSPLoop object
    trace,      \* what runLSP has read and written, and the callbacks it ran
    pc          \* "run"; "crashed" after a stack overflow or a null
                \* dereference; "returned" once runLSP has returned

vars == <<heap, argOrder, root, last, copies, bodies, lsp, trace, pc>>

(***************************************************************************)
(* AST nodes.  A node keeps its by-value fields (loc, symbol, name, aux:   *)
(* kind / isSelf / cast kind / literal value) and its owned children, one  *)
(* sequence per child slot in constructor order: a single child is a       *)
(* sequence of length one, a vector slot any length, the nullable          *)
(* Send::block length zero or one.  A TreeRef has no owned child and the   *)
(* shared pointer tree (nullptr when absent).                              *)
(***************************************************************************)
nullptr == 0

Node(tag, loc, symbol, name, aux, kids, tree) ==
    [tag |-> tag, loc |-> loc, symbol |-> symbol, name |-> name, aux |-> aux,
     kids |-> kids, tree |-> tree]

\* make_unique<V>(...): the node is placed in a fresh cell of the heap.
make_unique(h, n) == [h |-> Append(h, n), id |-> Len(h) + 1]

Outcome(h, st, id) == [h |-> h, st |-> st, id |-> id]

\* throw DeepCopyError(): the unique_ptrs of the frames being unwound free
\* what they built, so the heap is the one the frame started from.
Throw(h) == Outcome(h, "throw", nullptr)

RECURSIVE _deepCopy(_, _, _, _, _, _)
RECURSIVE deepCopyVec(_, _, _, _, _)
RECURSIVE deepCopySlots(_, _, _, _, _, _)

\* deepCopyVec: the members are copied first to last; st is "ok", "throw"
\* or "overflow".
deepCopyVec(h, avoid, origin, fuel, order) ==
    IF origin = <<>> THEN [h |-> h, st |-> "ok", copy |-> <<>>]
    ELSE LET memb == _deepCopy(h, Head(origin), avoid, FALSE, fuel, order) IN
         IF memb.st # "ok" THEN [h |-> h, st |-> memb.st, copy |-> <<>>]
         ELSE LET rest == deepCopyVec(memb.h, avoid, Tail(origin), fuel, order) IN
              IF rest.st # "ok" THEN [h |-> h, st |-> rest.st, copy |-> <<>>]
              ELSE [h |-> rest.h, st |-> "ok", copy |-> <<memb.id>> \o rest.copy]

\* The arguments of one make_unique<V>(...) call: each child slot is copied
\* as a whole; the order in which the slots are evaluated is the build's
\* ("ltr": first slot first, "rtl": last slot first).
deepCopySlots(h, avoid, slots, fuel, order, done) ==
    IF Len(done) = Len(slots) THEN [h |-> h, st |-> "ok", kids |-> done]
    ELSE LET k == IF order = "ltr" THEN Len(done) + 1 ELSE Len(slots) - Len(done)
             one == deepCopyVec(h, avoid, slots[k], fuel, order)
         IN IF one.st # "ok" THEN [h |-> h, st |-> one.st, kids |-> <<>>]
            ELSE LET rest == deepCopySlots(one.h, avoid, slots, fuel, order,
                                           IF order = "ltr" THEN Append(done, one.copy)
                                           ELSE <<one.copy>> \o done)
                 IN IF rest.st # "ok" THEN [h |-> h, st |-> rest.st, kids |-> <<>>]
                    ELSE rest

\* A TreeRef copy that hands out the tree it refers to instead of a copy
\* of it.
TreeRef_deepCopy_SharesTarget(h, this, avoid, fuel, order) ==
    IF h[this].tree = avoid THEN Throw(h)
    ELSE IF h[this].tree = nullptr THEN Throw(h)
    ELSE Outcome(h, "ok", h[this].tree)

\* TreeRef::_deepCopy after its avoid check: the copy of a TreeRef is the
\* copy of the tree it refers to.
TreeRef_deepCopy(h, this, avoid, fuel, order) ==
    IF h[this].tree = avoid THEN Throw(h)
    ELSE IF h[this].tree = nullptr THEN Throw(h)
    ELSE _deepCopy(h, h[this].tree, avoid, FALSE, fuel, order)

\* Variant_deepCopy losing a field that is set after construction (as
\* Block::symbol is): a fault the claims detect.
Variant_deepCopy_LosesSymbol(h, this, avoid, fuel, order) ==
    LET r == deepCopySlots(h, avoid, h[this].kids, fuel, order, <<>>) IN
    IF r.st # "ok" THEN Outcome(h, r.st, nullptr)
    ELSE LET m == make_unique(r.h, [h[this] EXCEPT !.kids = r.kids, !.symbol = ""])
         IN Outcome(m.h, "ok", m.id)

\* V::_deepCopy of every other variant after its avoid check: the by-value
\* fields are carried over and every owned child is copied.
Variant_deepCopy(h, this, avoid, fuel, order) ==
    LET r == deepCopySlots(h, avoid, h[this].kids, fuel, order, <<>>) IN
    IF r.st # "ok" THEN Outcome(h, r.st, nullptr)
    ELSE LET m == make_unique(r.h, [h[this] EXCEPT !.kids = r.kids])
         IN Outcome(m.h, "ok", m.id)

\* _deepCopy(avoid, root).  fuel is the call depth left: a finite heap of n
\* nodes has no acyclic path longer than n, so a call deeper than that
\* repeats a node and the recursion of the code never ends: the stack
\* overflows.
_deepCopy(h, this, avoid, isRoot, fuel, order) ==
    IF fuel = 0 THEN Outcome(h, "overflow", nullptr)
    ELSE IF ~isRoot /\ this = avoid THEN Throw(h)
    ELSE IF h[this].tag = "TreeRef" THEN TreeRef_deepCopy(h, this, avoid, fuel - 1, order)
    ELSE Variant_deepCopy(h, this, avoid, fuel - 1, order)

\* Expression::deepCopy without its try/catch (a fault the claims detect).
deepCopy_NoCatch(h, this, order) ==
    LET res == _deepCopy(h, this, this, TRUE, Len(h) + 1, order) IN
    IF res.st = "throw" THEN Outcome(res.h, "escaped", nullptr) ELSE res

\* Expression::deepCopy: st is "ok" (id is the copy), "caught" (the
\* DeepCopyError was caught and nullptr returned) or "overflow".
deepCopy(h, this, order) ==
    LET res == _deepCopy(h, this, this, TRUE, Len(h) + 1, order) IN
    IF res.st = "throw" THEN Outcome(res.h, "caught", nullptr) ELSE res

(***************************************************************************)
(* Structure of trees.                                                     *)
(***************************************************************************)
RECURSIVE ReachFrom(_, _, _)
ReachFrom(h, frontier, seen) ==
    IF frontier = {} THEN seen
    ELSE LET n == CHOOSE x \in frontier : TRUE
             succ == UNION {{h[n].kids[s][j] : j \in DOMAIN h[n].kids[s]} : s \in DOMAIN h[n].kids} \cup
                         (IF h[n].tag = "TreeRef" THEN {h[n].tree} ELSE {})
             new == (succ \ {nullptr}) \ (seen \cup {n})
         IN ReachFrom(h, (frontier \ {n}) \cup new, seen \cup {n})

\* The nodes of the tree at n, with those its TreeRefs lead to.
Reach(h, n) == IF n = nullptr THEN {} ELSE ReachFrom(h, {n}, {})

SameFields(x, y) ==
    /\ x.tag = y.tag /\ x.loc = y.loc /\ x.symbol = y.symbol
    /\ x.name = y.name /\ x.aux = y.aux
    /\ Len(x.kids) = Len(y.kids)
    /\ \A s \in DOMAIN x.kids : Len(x.kids[s]) = Len(y.kids[s])

\* Structural equality: the same variant, the same by-value fields, the same
\* number of children in every slot, pairwise structurally equal; two
\* TreeRefs are equal when what they refer to is.
RECURSIVE StructEq(_, _, _, _)
StructEq(h, a, b, fuel) ==
    IF a = nullptr \/ b = nullptr THEN a = b
    ELSE /\ fuel > 0
         /\ SameFields(h[a], h[b])
         /\ \A s \in DOMAIN h[a].kids : \A j \in DOMAIN h[a].kids[s] :
                StructEq(h, h[a].kids[s][j], h[b].kids[s][j], fuel - 1)
         /\ h[a].tag = "TreeRef" => StructEq(h, h[a].tree, h[b].tree, fuel - 1)

\* c is structurally equal to the tree at a once every TreeRef of it is
\* replaced by the tree it refers to.
RECURSIVE ExpandEq(_, _, _, _)
ExpandEq(h, a, c, fuel) ==
    IF a = nullptr \/ c = nullptr THEN a = c
    ELSE /\ fuel > 0
         /\ IF h[a].tag = "TreeRef" THEN ExpandEq(h, h[a].tree, c, fuel - 1)
            ELSE /\ SameFields(h[a], h[c])
                 /\ \A s \in DOMAIN h[a].kids : \A j \in DOMAIN h[a].kids[s] :
                        ExpandEq(h, h[a].kids[s][j], h[c].kids[s][j], fuel - 1)

HasTreeRef(h, n) == \E m \in Reach(h, n) : h[m].tag = "TreeRef"

(***************************************************************************)
(* Building the trees the operations are given.                            *)
(***************************************************************************)
D(tag, symbol, name, aux, kids) ==
    [tag |-> tag, symbol |-> symbol, name |-> name, aux |-> aux, kids |-> kids]

RECURSIVE Size(_)
RECURSIVE SizeAll(_)
RECURSIVE Build(_, _)
RECURSIVE BuildAll(_, _)

\* The descriptors of all the children of d, slot after slot.
KidsOf(d) ==
    LET RECURSIVE cat(_)
        cat(slots) == IF slots = <<>> THEN <<>> ELSE Head(slots) \o cat(Tail(slots))
    IN cat(d.kids)

Size(d) == 1 + SizeAll(KidsOf(d))

SizeAll(ds) == IF ds = <<>> THEN 0 ELSE Size(Head(ds)) + SizeAll(Tail(ds))

\* The nodes of the tree d describes, placed at base + 1, base + 2, ...: the
\* node itself, then its children's trees one after the other.  A node gets
\* its own index as location, so that no two nodes of a built tree agree on
\* their by-value fields by accident.
Build(d, base) ==
    LET flat == KidsOf(d)
        before(s) == Len(KidsOf([kids |-> SubSeq(d.kids, 1, s - 1)]))
        at(s, j) == base + 1 + SizeAll(SubSeq(flat, 1, before(s) + j - 1))
    IN <<Node(d.tag, base + 1, d.symbol, d.name, d.aux,
              [s \in DOMAIN d.kids |-> [j \in DOMAIN d.kids[s] |-> at(s, j) + 1]],
              nullptr)>>
       \o BuildAll(flat, base + 1)

BuildAll(ds, base) ==
    IF ds = <<>> THEN <<>>
    ELSE Build(Head(ds), base) \o BuildAll(Tail(ds), base + Size(Head(ds)))

TreeRefsOf(h) == {n \in DOMAIN h : h[n].tag = "TreeRef"}

\* The heap with the TreeRefs referring to what tg says.
Retarget(h, tg) ==
    [n \in DOMAIN h |-> IF n \in DOMAIN tg THEN [h[n] EXCEPT !.tree = tg[n]] ELSE h[n]]

Lit == D("Literal", "", "", "1", <<>>)
Ref == D("TreeRef", "", "", "", <<>>)
Arr(elems) == D("Array", "", "", "", <<elems>>)
HashD(keys, values) == D("Hash", "", "", "", <<keys, values>>)
Blk == D("Block", "blk", "", "", << <<>>, <<Lit>> >>)
SendD(recv, fun, args, block) == D("Send", "", fun, "", << <<recv>>, args, block >>)

Leaves == {Lit, Ref}

\* The trees deepCopy is given: every mix of leaves and TreeRefs in a
\* one-slot, a two-slot and a three-slot variant, and a nested one.
CopyShapes ==
    {Ref}
    \cup {Arr(<<x>>) : x \in Leaves}
    \cup {Arr(<<x, y>>) : x \in Leaves, y \in Leaves}
    \cup {HashD(<<x>>, <<y>>) : x \in Leaves, y \in Leaves}
    \cup {SendD(x, "f", <<y>>, b) : x \in Leaves, y \in Leaves, b \in {<<>>, <<Blk>>}}
    \cup {Arr(<<Arr(<<x>>), y>>) : x \in Leaves, y \in Leaves}

\* Trees stored elsewhere, which a TreeRef may refer to.
Elsewhere == {<<>>, <<Lit>>, <<Arr(<<Ref>>)>>}

MaxCopies == 3

NoOp == [op |-> "none", src |-> nullptr, st |-> "", id |-> nullptr, before |-> <<>>]

InitCopy ==
    /\ \E d \in CopyShapes, e \in Elsewhere :
         LET b == Build(d, 0) \o BuildAll(e, Size(d)) IN
         \E tg \in [TreeRefsOf(b) -> 0..Len(b)] :
            heap = Retarget(b, tg)
    /\ argOrder \in {"ltr", "rtl"}
    /\ root = 1
    /\ last = NoOp
    /\ copies = <<>>
    /\ bodies = <<>>
    /\ lsp = <<>>
    /\ trace = <<>>
    /\ pc = "run"

\* One call of deepCopy on src.
DoDeepCopy(src) ==
    /\ pc = "run"
    /\ Len(copies) + (IF last.st \in {"caught", "escaped"} THEN 1 ELSE 0) < MaxCopies
    /\ LET r == deepCopy(heap, src, argOrder) IN
       /\ heap' = r.h
       /\ last' = [op |-> "deepCopy", src |-> src, st |-> r.st, id |-> r.id, before |-> heap]
       /\ copies' = IF r.st = "ok" THEN Append(copies, r.id) ELSE copies
       /\ pc' = IF r.st = "overflow" THEN "crashed" ELSE "run"
    /\ UNCHANGED <<argOrder, root, bodies, lsp, trace>>

CopyRoot == DoDeepCopy(root)

CopyACopy == \E i \in DOMAIN copies : DoDeepCopy(copies[i])

NextCopy == CopyRoot \/ CopyACopy

SpecCopy == InitCopy /\ [][NextCopy]_vars

(***************************************************************************)
(* Claims about deepCopy, checked under SpecCopy.                          *)
(***************************************************************************)
Fuel == Len(heap) + 1

Disjoint(A, B) == A \cap B = {}

\* C1 as stated: every successful copy, and every copy of a copy, is
\* structurally equal to the tree T it started from (the same variant at
\* every position) and shares no node with T.
C1_CopyStructurallyEqual ==
    \A i \in DOMAIN copies :
        /\ StructEq(heap, root, copies[i], Fuel)
        /\ Disjoint(Reach(heap, root), Reach(heap, copies[i]))

\* C1 amended: every successful copy, and every copy of a copy, is
\* structurally equal to T once each TreeRef of T is replaced by the tree it
\* refers to (so it is structurally equal to T when T has no TreeRef), it
\* shares no node with T or with another copy, and all the copies are
\* structurally equal to one another.
C1_CopyEqualsExpansion ==
    \A i \in DOMAIN copies :
        /\ ExpandEq(heap, root, copies[i], Fuel)
        /\ ~HasTreeRef(heap, root) => StructEq(heap, root, copies[i], Fuel)
        /\ Disjoint(Reach(heap, root), Reach(heap, copies[i]))
        /\ \A j \in DOMAIN copies :
              /\ StructEq(heap, copies[i], copies[j], Fuel)
              /\ i # j => Disjoint(Reach(heap, copies[i]), Reach(heap, copies[j]))

\* A copy of a copy of a tree that holds a TreeRef below a nested node.
C1_Witness ==
    /\ Len(copies) >= 2
    /\ last.op = "deepCopy" /\ last.st = "ok" /\ last.src = copies[1]
    /\ heap[root].tag = "Array" /\ Len(heap[root].kids[1]) = 2
    /\ HasTreeRef(heap, root)

\* The claim's description of the trees on which deepCopy fails: some
\* TreeRef of T (also one reached through another TreeRef) has no target,
\* refers to the avoid node (the root T), or refers to itself.
BadTreeRef(h, t) ==
    \E r \in Reach(h, t) :
        /\ h[r].tag = "TreeRef"
        /\ h[r].tree = nullptr \/ h[r].tree = t \/ h[r].tree = r

\* C2 as stated: deepCopy(T) returns the not-copyable result exactly when T
\* holds such a TreeRef, and returns a copy for every other tree.
C2_FailsIffBadTreeRef ==
    last.op = "deepCopy" =>
        /\ (last.st = "caught") <=> BadTreeRef(last.before, last.src)
        /\ ~BadTreeRef(last.before, last.src) => last.st = "ok"

\* C3: when the traversal throws DeepCopyError, whatever the depth, the
\* entry point returns nullptr, the error does not escape, nothing that was
\* built is left on the heap and the source tree is as before.
C3_FailureYieldsNull ==
    (/\ last.op = "deepCopy"
     /\ _deepCopy(last.before, last.src, last.src, TRUE, Len(last.before) + 1, argOrder).st = "throw")
    => /\ last.st = "caught"
       /\ last.id = nullptr
       /\ heap = last.before

\* A failure two levels below the root: the root's first child is an Array
\* whose child is a TreeRef without target, copied after a sibling was built.
C3_Witness ==
    /\ last.op = "deepCopy" /\ last.st = "caught" /\ last.src = root
    /\ heap[root].tag = "Array"
    /\ \E m \in {heap[root].kids[1][j] : j \in DOMAIN heap[root].kids[1]} :
          /\ heap[m].tag = "Array"
          /\ \E r \in {heap[m].kids[1][j] : j \in DOMAIN heap[m].kids[1]} :
                heap[r].tag = "TreeRef" /\ heap[r].tree = nullptr

(***************************************************************************)
(* dsl/Command.cc.  A ClassDef has the slots <<name>>, ancestors, rhs and  *)
(* its kind in aux; a MethodDef the slots args, <<rhs>>, its name in name  *)
(* and isSelf in aux; a ConstantLit the slot <<scope>> and cnst in name; a *)
(* Send the slots <<recv>>, args, block and fun in name; an Ident its      *)
(* symbol.                                                                 *)
(***************************************************************************)
\* cast_tree<To>(what): what when it is a To, nullptr otherwise (also for
\* nullptr).
cast_tree(h, To, what) ==
    IF what # nullptr /\ h[what].tag = To THEN what ELSE nullptr

isa_tree(h, To, what) == cast_tree(h, To, what) # nullptr

\* isCommand without its test of the kind (a fault the claims detect).
isCommand_IgnoresKind(h, klass) ==
    IF h[klass].kids[2] = <<>> THEN FALSE
    ELSE LET cnst == cast_tree(h, "ConstantLit", Head(h[klass].kids[2])) IN
         IF cnst = nullptr THEN FALSE
         ELSE IF h[cnst].name # "Command" THEN FALSE
         ELSE LET scope == cast_tree(h, "ConstantLit", h[cnst].kids[1][1]) IN
              IF scope = nullptr THEN FALSE
              ELSE IF h[scope].name # "Opus" THEN FALSE
              ELSE IF isa_tree(h, "EmptyTree", h[scope].kids[1][1]) THEN TRUE
              ELSE LET id == cast_tree(h, "Ident", h[scope].kids[1][1]) IN
                   IF id = nullptr THEN FALSE
                   ELSE h[id].symbol = "root"

isCommand(h, klass) ==
    IF h[klass].aux # "Class" \/ h[klass].kids[2] = <<>> THEN FALSE
    ELSE LET cnst == cast_tree(h, "ConstantLit", Head(h[klass].kids[2])) IN
         IF cnst = nullptr THEN FALSE
         ELSE IF h[cnst].name # "Command" THEN FALSE
         ELSE LET scope == cast_tree(h, "ConstantLit", h[cnst].kids[1][1]) IN
              IF scope = nullptr THEN FALSE
              ELSE IF h[scope].name # "Opus" THEN FALSE
              ELSE IF isa_tree(h, "EmptyTree", h[scope].kids[1][1]) THEN TRUE
              ELSE LET id == cast_tree(h, "Ident", h[scope].kids[1][1]) IN
                   IF id = nullptr THEN FALSE
                   ELSE h[id].symbol = "root"

\* MK::Untyped(loc): the expression T.untyped.
MK_Untyped(h, loc) ==
    LET t == make_unique(h, Node("Ident", loc, "T", "", "", <<>>, nullptr))
    IN make_unique(t.h, Node("Send", loc, "", "untyped", "", << <<t.id>>, <<>>, <<>> >>, nullptr))

\* MK::Method(loc, name, args, rhs, isSelf).
MK_Method(h, loc, name, args, rhs, isSelf) ==
    make_unique(h, Node("MethodDef", loc, "todo", name, IF isSelf THEN "self" ELSE "", <<args, <<rhs>> >>, nullptr))

\* for (auto &arg : call->args) newArgs.emplace_back(arg->deepCopy());
RECURSIVE CopyArgs(_, _, _)
CopyArgs(h, args, order) ==
    IF args = <<>> THEN [h |-> h, st |-> "ok", ids |-> <<>>]
    ELSE LET a == deepCopy(h, Head(args), order) IN
         IF a.st = "overflow" THEN [h |-> h, st |-> "overflow", ids |-> <<>>]
         ELSE LET r == CopyArgs(a.h, Tail(args), order) IN
              IF r.st = "overflow" THEN [h |-> h, st |-> "overflow", ids |-> <<>>]
              ELSE [h |-> r.h, st |-> "ok", ids |-> <<a.id>> \o r.ids]

\* vector::insert(begin() + pos, x), pos counted from 0.
Insert(v, pos, x) == SubSeq(v, 1, pos) \o <<x>> \o SubSeq(v, pos + 1, Len(v))

\* klass->rhs.insert(begin() + i + 1, sig->deepCopy()) and
\* klass->rhs.insert(begin() + i + 2, move(selfCall)) (lines 87-88); h0 is
\* the heap patchDSL was entered with.
InsertCopies(h0, klass, i, selfCall, sigCopy) ==
    IF sigCopy.st = "overflow" THEN [h |-> h0, st |-> "overflow"]
    ELSE [h |-> [sigCopy.h EXCEPT ![klass].kids[3] =
                    Insert(Insert(@, i + 1, sigCopy.id), i + 2, selfCall)],
          st |-> "ok"]

\* auto selfCall = MK::Method(call->loc, call->name, move(newArgs),
\* MK::Untyped(call->loc), true) (line 85), untyped being the argument
\* MK::Untyped(call->loc) already built.
MakeSelfCall(h0, call, newArgs, untyped) ==
    MK_Method(untyped.h, h0[call].loc, h0[call].name, newArgs.ids, untyped.id, TRUE)

\* Lines 85-88, newArgs being the result of the loop of lines 80-83.
InsertWithArgs(h0, klass, i, call, sig, order, newArgs, selfCall) ==
    IF newArgs.st = "overflow" THEN [h |-> h0, st |-> "overflow"]
    ELSE InsertCopies(h0, klass, i, selfCall.id, deepCopy(selfCall.h, sig, order))

SelfCallOf(h0, call, newArgs) ==
    IF newArgs.st = "overflow" THEN [h |-> h0, id |-> nullptr]
    ELSE MakeSelfCall(h0, call, newArgs, MK_Untyped(newArgs.h, h0[call].loc))

InsertAfterArgs(h0, klass, i, call, sig, order, newArgs) ==
    InsertWithArgs(h0, klass, i, call, sig, order, newArgs, SelfCallOf(h0, call, newArgs))

\* The part of patchDSL after the heuristic (lines 80-88); i counts from 0.
InsertSelfCall(h, klass, i, call, sig, order) ==
    InsertAfterArgs(h, klass, i, call, sig, order, CopyArgs(h, h[call].kids[1], order))

\* Command::patchDSL.  call is not initialised before the loop: when no
\* method named call is found, the test call == nullptr reads whatever the
\* build left there (callIsNull).  i counts from 0 as in the code, rhs[k]
\* of the code is rhs[k + 1] here.
patchDSL(h, klass, callIsNull, order) ==
    IF ~isCommand(h, klass) THEN [h |-> h, st |-> "ok"]
    ELSE LET rhs == h[klass].kids[3]
             calls == {k \in DOMAIN rhs : /\ cast_tree(h, "MethodDef", rhs[k]) # nullptr
                                          /\ h[rhs[k]].name = "call"}
             found == calls # {}
             i == IF found THEN (CHOOSE k \in calls : \A l \in calls : k <= l) - 1 ELSE 0
             call == IF found THEN rhs[i + 1] ELSE nullptr
         IN IF (IF found THEN FALSE ELSE callIsNull) \/ i = 0 THEN [h |-> h, st |-> "ok"]
            ELSE LET sig == cast_tree(h, "Send", rhs[i]) IN
                 IF sig = nullptr \/ ~isa_tree(h, "Send", h[sig].kids[1][1])
                 THEN [h |-> h, st |-> "ok"]
                 ELSE InsertSelfCall(h, klass, i, call, sig, order)

(***************************************************************************)
(* The ClassDefs patchDSL is given.                                        *)
(***************************************************************************)
Empty == D("EmptyTree", "", "", "", <<>>)
IdentD(symbol) == D("Ident", symbol, "", "", <<>>)
CL(cnst, scope) == D("ConstantLit", "", cnst, "", << <<scope>> >>)
LocalD == D("Local", "", "x", "", <<>>)
OptArg(default) == D("OptionalArg", "", "", "", << <<LocalD>>, <<default>> >>)
Def(name, args) == D("MethodDef", "m", name, "", <<args, <<Empty>> >>)
ClassD(kind, ancestors, rhs) == D("ClassDef", "c", "", kind, << <<Empty>>, ancestors, rhs >>)

\* sig-like statements: a Send whose receiver is a Send, without and with a
\* TreeRef among its arguments.
Sig == SendD(SendD(Empty, "params", <<>>, <<>>), "returns", <<>>, <<>>)
SigRef == SendD(SendD(Empty, "params", <<>>, <<>>), "returns", <<Ref>>, <<>>)
Plain == SendD(Empty, "puts", <<>>, <<>>)

Statements ==
    {Sig, SigRef, Plain, Def("call", <<LocalD>>), Def("call", <<OptArg(Ref)>>),
     Def("other", <<>>)}

MaxBody == 3

RECURSIVE SeqsUpTo(_, _)
SeqsUpTo(S, n) ==
    IF n = 0 THEN {<<>>}
    ELSE LET shorter == SeqsUpTo(S, n - 1) IN
         shorter \cup {Append(q, x) : q \in shorter, x \in S}

OpusCommand(scope) == CL("Command", CL("Opus", scope))

\* Commands with every body; the other ways of being a command, and classes
\* that are not commands for one reason each, with bodies that a command
\* has rewritten.
ClassShapes ==
    {ClassD("Class", <<OpusCommand(Empty)>>, b) : b \in SeqsUpTo(Statements, MaxBody)}
    \cup
    {ClassD(k[1], k[2], b) :
        k \in {<<"Class", <<OpusCommand(IdentD("root"))>> >>,
               <<"Class", <<OpusCommand(Empty), IdentD("root")>> >>,
               <<"Module", <<OpusCommand(Empty)>> >>,
               <<"Class", <<>> >>,
               <<"Class", <<IdentD("root")>> >>,
               <<"Class", <<CL("Other", CL("Opus", Empty))>> >>,
               <<"Class", <<CL("Command", Empty)>> >>,
               <<"Class", <<CL("Command", CL("Other", Empty))>> >>,
               <<"Class", <<CL("Command", CL("Opus", IdentD("other")))>> >>,
               <<"Class", <<CL("Command", CL("Opus", CL("X", Empty)))>> >>,
               <<"Class", <<CL("Other", Empty), OpusCommand(Empty)>> >>},
        b \in {<<Sig, Def("call", <<LocalD>>)>>, <<Plain, Sig, Def("call", <<>>)>>}}

\* What a TreeRef n refers to: nothing, itself, the node built two or three
\* before it (the statement or argument it belongs to is one of them), or
\* the class name (a tree stored elsewhere).
RefTargets(n) == {nullptr, n, n - 2, n - 3, 2}

MaxPatches == 2

Retargeted(b) ==
    {Retarget(b, tg) : tg \in {t \in [TreeRefsOf(b) -> 0..Len(b)] :
                                  \A r \in TreeRefsOf(b) : t[r] \in RefTargets(r)}}

ClassHeaps(d) == Retargeted(Build(d, 0))

InitDSL ==
    /\ \E d \in ClassShapes : heap \in ClassHeaps(d)
    /\ argOrder \in {"ltr", "rtl"}
    /\ root = 1
    /\ last = NoOp
    /\ copies = <<>>
    /\ bodies = <<>>
    /\ lsp = <<>>
    /\ trace = <<>>
    /\ pc = "run"

\* One run of the pass over the class.
PatchDSL ==
    /\ pc = "run"
    /\ Len(bodies) < MaxPatches
    /\ \E callIsNull \in BOOLEAN :
         \E r \in {patchDSL(heap, root, callIsNull, argOrder)} :
         /\ heap' = r.h
         /\ last' = [op |-> "patchDSL", src |-> root, st |-> r.st, id |-> nullptr, before |-> heap]
         /\ bodies' = IF r.st = "ok" THEN Append(bodies, r.h[root].kids[3]) ELSE bodies
         /\ pc' = IF r.st = "overflow" THEN "crashed" ELSE "run"
    /\ UNCHANGED <<argOrder, root, copies, lsp, trace>>

NextDSL == PatchDSL

SpecDSL == InitDSL /\ [][NextDSL]_vars

(***************************************************************************)
(* Claims about patchDSL, checked under SpecDSL.                           *)
(***************************************************************************)
IsOpusCommand(h, a) ==
    /\ h[a].tag = "ConstantLit" /\ h[a].name = "Command"
    /\ LET s == h[a].kids[1][1] IN
       /\ h[s].tag = "ConstantLit" /\ h[s].name = "Opus"
       /\ LET ss == h[s].kids[1][1] IN
          \/ h[ss].tag = "EmptyTree"
          \/ h[ss].tag = "Ident" /\ h[ss].symbol = "root"

IsCall(h, n) == n # nullptr /\ h[n].tag = "MethodDef" /\ h[n].name = "call"

IsSend(h, n) == n # nullptr /\ h[n].tag = "Send"

\* The place (counted from 1) of the first MethodDef named call, 0 if none.
FirstCall(h, rhs) ==
    IF \E k \in DOMAIN rhs : IsCall(h, rhs[k])
    THEN CHOOSE k \in DOMAIN rhs : IsCall(h, rhs[k]) /\ \A l \in 1..(k - 1) : ~IsCall(h, rhs[l])
    ELSE 0

\* The conditions of the rewrite as the specification states them.
RewriteCond(h, k) ==
    /\ h[k].aux = "Class"
    /\ h[k].kids[2] # <<>>
    /\ IsOpusCommand(h, h[k].kids[2][1])
    /\ LET rhs == h[k].kids[3]
           c == FirstCall(h, rhs)
       IN /\ c > 1
          /\ IsSend(h, rhs[c - 1])
          /\ IsSend(h, h[rhs[c - 1]].kids[1][1])

\* C4 as stated: a second patchDSL inserts nothing, the body after it is the
\* body after the first.
C4_Idempotent == Len(bodies) >= 2 => bodies[2] = bodies[1]

\* C5: unless all the conditions hold, patchDSL changes nothing: the
\* ClassDef (kind, ancestors, body) and every other node are as before.
C5_NoOpUnlessMatch ==
    (last.op = "patchDSL" /\ ~RewriteCond(last.before, root))
    => heap = last.before /\ pc = "run"

\* A command whose first statement is call (so nothing is rewritten) and
\* in which a later call follows a sig.
C5_Witness ==
    /\ last.op = "patchDSL" /\ heap = last.before
    /\ heap[root].aux = "Class" /\ heap[root].kids[2] # <<>>
    /\ IsOpusCommand(heap, heap[root].kids[2][1])
    /\ LET rhs == heap[root].kids[3] IN
       /\ Len(rhs) = 3 /\ IsCall(heap, rhs[1]) /\ IsCall(heap, rhs[3])
       /\ IsSend(heap, rhs[2]) /\ IsSend(heap, heap[rhs[2]].kids[1][1])

\* What C6 says of a rewrite: two elements are inserted after call, a copy
\* of the sig and a self-targeted call with copies of the arguments and an
\* untyped body; everything that was there is kept as it was.
Inserted(before, after, k) ==
    LET old == before[k].kids[3]
        new == after[k].kids[3]
        c == FirstCall(before, old)
        sigCopy == new[c + 1]
        selfCall == new[c + 2]
    IN /\ Len(new) = Len(old) + 2
       /\ SubSeq(new, 1, c) = SubSeq(old, 1, c)
       /\ SubSeq(new, c + 3, Len(new)) = SubSeq(old, c + 1, Len(old))
       /\ \A n \in DOMAIN before : n # k => after[n] = before[n]
       /\ after[k] = [before[k] EXCEPT !.kids[3] = new]
       /\ sigCopy # nullptr /\ sigCopy > Len(before)
       /\ ExpandEq(after, old[c - 1], sigCopy, Len(after) + 1)
       /\ selfCall # nullptr /\ selfCall > Len(before)
       /\ after[selfCall].tag = "MethodDef"
       /\ after[selfCall].loc = before[old[c]].loc
       /\ after[selfCall].name = before[old[c]].name
       /\ after[selfCall].aux = "self"
       /\ LET body == after[selfCall].kids[2][1] IN
          after[body].tag = "Send" /\ after[body].name = "untyped"
       /\ LET args == before[old[c]].kids[1]
              newArgs == after[selfCall].kids[1]
          IN /\ Len(newArgs) = Len(args)
             /\ \A j \in DOMAIN args :
                   /\ newArgs[j] # nullptr /\ newArgs[j] > Len(before)
                   /\ ExpandEq(after, args[j], newArgs[j], Len(after) + 1)

\* C6 as stated: whenever the conditions hold, patchDSL inserts the two
\* elements.
C6_InsertsSigCopyAndSelfCall ==
    (last.op = "patchDSL" /\ RewriteCond(last.before, root))
    => pc = "run" /\ Inserted(last.before, heap, root)

\* The deepCopy calls of a rewrite all return a copy.
CopiesSucceed(h, k) ==
    LET rhs == h[k].kids[3]
        c == FirstCall(h, rhs)
    IN /\ deepCopy(h, rhs[c - 1], argOrder).st = "ok"
       /\ \A j \in DOMAIN h[rhs[c]].kids[1] : deepCopy(h, h[rhs[c]].kids[1][j], argOrder).st = "ok"

\* What holds of the code in place of C6: the two elements are inserted
\* when every deepCopy of the rewrite returns a copy.
C6_InsertsWhenCopiesSucceed ==
    (last.op = "patchDSL" /\ RewriteCond(last.before, root) /\ CopiesSucceed(last.before, root))
    => pc = "run" /\ Inserted(last.before, heap, root)

(***************************************************************************)
(* main/LSPLoop.cc.  Strings that the code takes apart (URIs, paths) are   *)
(* sequences of characters; a JSON document is the set of its top-level    *)
(* members (has) and their values, an absent member holding "" or Null.    *)
(* A FileRef is the index of the file in its GlobalState, 0 the FileRef    *)
(* that does not exist.                                                    *)
(***************************************************************************)
Null == [k |-> "null"]

Doc(has, id, method, params, result, error) ==
    [has |-> has, id |-> id, method |-> method, params |-> params,
     result |-> result, error |-> error]

\* Document::AddMember and Document::RemoveMember.
AddMember(d, name, value) == [d EXCEPT !.has = @ \cup {name}, ![name] = value]

RemoveMember(d, name) ==
    [d EXCEPT !.has = @ \ {name}, ![name] = IF name \in {"id", "method"} THEN "" ELSE Null]

\* One entry of the trace: a document read ("read") or written ("write"),
\* a callback run ("call", cb its name, arg what it was given), the end of
\* the input ("eof") or a payload that does not parse ("parse error").
Event(ev, doc, cb, arg) == [ev |-> ev, doc |-> doc, cb |-> cb, arg |-> arg]

Emit(s, ev, doc, cb, arg) == [s EXCEPT !.trace = Append(@, Event(ev, doc, cb, arg))]

\* std::map: operator[] assignment, find and erase.
Put(m, key, v) == [x \in DOMAIN m \cup {key} |-> IF x = key THEN v ELSE m[x]]

Erase(m, key) == [x \in DOMAIN m \ {key} |-> m[x]]

\* The method registry, LSPMethod{name, isNotification, kind, isSupported}.
LSPMethod(name, isNotification, kind, isSupported) ==
    [name |-> name, isNotification |-> isNotification, kind |-> kind, isSupported |-> isSupported]

Initialize == LSPMethod("initialize", FALSE, "ClientInitiated", TRUE)
Inititalized == LSPMethod("initialized", TRUE, "ClientInitiated", TRUE)
Shutdown == LSPMethod("shutdown", FALSE, "ClientInitiated", TRUE)
Exit == LSPMethod("exit", TRUE, "ClientInitiated", TRUE)
TextDocumentDidChange == LSPMethod("textDocument/didChange", TRUE, "ClientInitiated", TRUE)
DidChangeWatchedFiles == LSPMethod("workspace/didChangeWatchedFiles", TRUE, "ClientInitiated", TRUE)
TextDocumentDocumentSymbol == LSPMethod("textDocument/documentSymbol", FALSE, "ClientInitiated", TRUE)
PushDiagnostics == LSPMethod("textDocument/publishDiagnostics", TRUE, "ServerInitiated", TRUE)
ReadFile == LSPMethod("readFile", FALSE, "ServerInitiated", TRUE)
\* A registered request the dispatcher has no branch for.
TextDocumentHover == LSPMethod("textDocument/hover", FALSE, "ClientInitiated", FALSE)

ALL ==
    <<Initialize, Inititalized, Shutdown, Exit, TextDocumentDidChange, DidChangeWatchedFiles,
      TextDocumentDocumentSymbol, PushDiagnostics, ReadFile, TextDocumentHover>>

MethodNotFound == -32601

\* A getMethod that synthesizes a request for an unknown name.
getMethod_UnknownIsRequest(name) ==
    IF \E i \in DOMAIN ALL : ALL[i].name = name
    THEN ALL[CHOOSE i \in DOMAIN ALL : ALL[i].name = name /\ \A j \in 1..(i - 1) : ALL[j].name # name]
    ELSE LSPMethod(name, FALSE, "ClientInitiated", FALSE)

\* LSP::getMethod.
getMethod(name) ==
    IF \E i \in DOMAIN ALL : ALL[i].name = name
    THEN ALL[CHOOSE i \in DOMAIN ALL : ALL[i].name = name /\ \A j \in 1..(i - 1) : ALL[j].name # name]
    ELSE LSPMethod(name, TRUE, "ClientInitiated", FALSE)

startsWith(str, prefix) ==
    Len(str) >= Len(prefix) /\ SubSeq(str, 1, Len(prefix)) = prefix

\* LSPLoop::remoteName2Local: the uri from position 1 + rootUri.length() on.
remoteName2Local(loop, uri) == SubSeq(uri, Len(loop.rootUri) + 2, Len(uri))

\* The length handed to the string constructor in remoteName2Local,
\* uri.length() - rootUri.length() - 1, is below zero: as a size_t it is
\* beyond max_size() and the constructor throws std::length_error, which
\* nothing catches.
length_error(loop, uri) == Len(uri) - Len(loop.rootUri) - 1 < 0

\* LSPLoop::localName2Remote.
localName2Remote(loop, uri) == loop.rootUri \o <<"/">> \o uri

\* LSPLoop::sendRaw: the document goes to stdout.
sendRaw(s, raw) == Emit(s, "write", raw, "", Null)

\* fmt::format("ruby-typer-req-{}", n).
idStr(n) == "ruby-typer-req-" \o ToString(n)

\* LSPLoop::sendNotification.
sendNotification(s, meth, data) ==
    sendRaw([s EXCEPT !.lsp.requestCounter = @ + 1],
            Doc({"method", "params"}, "", meth.name, data, Null, Null))

\* LSPLoop::sendRequest.
sendRequest(s, meth, data, onComplete, onFail) ==
    sendRaw([s EXCEPT !.lsp.requestCounter = @ + 1,
                      !.lsp.awaitingResponse =
                          Put(@, idStr(s.lsp.requestCounter + 1),
                              [onResult |-> onComplete, onError |-> onFail])],
            Doc({"id", "method", "params"}, idStr(s.lsp.requestCounter + 1), meth.name,
                data, Null, Null))

\* LSPLoop::sendResult.
sendResult(s, forRequest, result) ==
    sendRaw(s, RemoveMember(RemoveMember(AddMember(forRequest, "result", result), "method"),
                            "params"))

sendError_InternalError(s, forRequest, errorCode, errorStr) ==
    sendRaw(s, AddMember(RemoveMember(RemoveMember(forRequest, "method"), "params"), "error",
                         [k |-> "obj", code |-> -32603, message |-> errorStr]))

\* LSPLoop::sendError.
sendError(s, forRequest, errorCode, errorStr) ==
    sendRaw(s, AddMember(RemoveMember(RemoveMember(forRequest, "method"), "params"), "error",
                         [k |-> "obj", code |-> errorCode, message |-> errorStr]))

(***************************************************************************)
(* The global state and the pipeline (core, index, resolve, typecheck).    *)
(* A GlobalState is its file table, its symbol table and, for initialGS,   *)
(* the error queue that finalGs shares with it.  ext is what the pipeline  *)
(* reports during one dispatch.                                            *)
(***************************************************************************)
File(path, source, source_type) == [path |-> path, source |-> source, source_type |-> source_type]

NullGS == [null |-> TRUE, files |-> <<>>, symbols |-> <<>>]

\* An indexed tree, known by its file; NoTree is an empty slot.
\* A tree: the file of its loc, its expression, and the call that
\* allocated it, "index" or "deepCopy".
Tree(file, expr) == [file |-> file, expr |-> expr, by |-> "index"]

NoTree == Tree(0, Null)

\* tree->deepCopy() of line 599: Expression::deepCopy on the tree's
\* expression; a null unique_ptr (NoTree) when it returns nullptr.
CopyOf(tree) ==
    IF deepCopy(Build(tree.expr, 0), 1, "ltr").id = nullptr THEN NoTree
    ELSE [tree EXCEPT !.by = "deepCopy"]

\* The copies of the trees cached in indexed, the null slots skipped
\* (lines 597-601).
RECURSIVE CopyTrees(_)
CopyTrees(indexed) ==
    IF indexed = <<>> THEN <<>>
    ELSE (IF Head(indexed) = NoTree THEN <<>> ELSE <<CopyOf(Head(indexed))>>)
         \o CopyTrees(Tail(indexed))

Pos(line, column) == [line |-> line, column |-> column]

Loc(file, begin, end) == [file |-> file, begin |-> begin, end |-> end]

\* A core::ComplexError: sections of a header and message lines, each line
\* with a loc and a formattedMessage.
ComplexError(what, loc, formatted, sections) ==
    [what |-> what, loc |-> loc, formatted |-> formatted, complex |-> TRUE, sections |-> sections]

\* A core::BasicError that is no ComplexError.
Error(what, loc, formatted) ==
    [ComplexError(what, loc, formatted, <<>>) EXCEPT !.complex = FALSE]

ErrorSection(header, messages) == [header |-> header, messages |-> messages]

ErrorLine(loc, formattedMessage) == [loc |-> loc, formattedMessage |-> formattedMessage]

\* GlobalState::enterFile: the file takes the next FileRef.
enterFile(gs, file) == [gs EXCEPT !.files = Append(@, file)]

RECURSIVE EnterAll(_, _)
EnterAll(gs, files) ==
    IF files = <<>> THEN gs ELSE EnterAll(enterFile(gs, Head(files)), Tail(files))

\* index(gs, inputNames, inputFiles, ...): the files named are read and
\* entered; one tree for each of them and for each file of inputFiles.
index(gs, inputNames, inputFiles, expr) ==
    [gs |-> EnterAll(gs, [i \in DOMAIN inputNames |-> File(inputNames[i], "disk", "Normal")]),
     trees |-> [i \in DOMAIN inputNames |-> Tree(Len(gs.files) + i, expr)]
               \o [i \in DOMAIN inputFiles |-> Tree(inputFiles[i], expr)]]

\* The symbols resolve and typecheck define: one for each file.
Symbol(name, kind, definitionLoc, owner) ==
    [name |-> name, kind |-> kind, definitionLoc |-> definitionLoc, owner |-> owner]

SymbolsOf(files) ==
    [i \in DOMAIN files |->
        Symbol(files[i].path, IF files[i].source_type = "Payload" THEN "module" ELSE "class",
               Loc(i, Pos(1, 1), Pos(2, 1)), "<root>")]

\* What the pipeline queues in one dispatch: nothing, or an error in the
\* first or in the last file.
Exts == {"none", "first", "last"}

\* The expression of the trees the indexer yields: a TreeRef without a
\* tree, which deepCopy does not copy, when ext is "uncopyable".
Indexed(ext) == IF ext = "uncopyable" THEN Ref ELSE Lit

\* The batches of Exts and the larger ones: errors of the three silenced
\* classes, errors of two files in turn, and complex errors.
Batches == Exts \cup {"silenced", "mixed", "interleaved", "complex", "sections"}

At(file) == Loc(file, Pos(3, 5), Pos(3, 9))

Basic(what, file) == Error(what, At(file), "error")

Reported(ext, files) ==
    IF ext \in {"none", "uncopyable"} \/ files = <<>> THEN <<>>
    ELSE IF ext = "first" THEN <<Basic("Infer::MethodArgumentMismatch", 1)>>
    ELSE IF ext = "last" THEN <<Basic("Infer::MethodArgumentMismatch", Len(files))>>
    ELSE IF ext = "silenced"
    THEN <<Basic("Namer::RedefinitionOfMethod", Len(files)),
           Basic("Resolver::DuplicateVariableDeclaration", Len(files)),
           Basic("Infer::MethodArgumentMismatch", 1),
           Basic("Resolver::RedefinitionOfParents", Len(files))>>
    ELSE IF ext = "mixed"
    THEN <<Basic("Namer::RedefinitionOfMethod", Len(files)),
           Basic("Infer::MethodArgumentMismatch", Len(files)),
           Basic("Resolver::DuplicateVariableDeclaration", 1),
           Basic("Resolver::StubConstant", Len(files))>>
    ELSE IF ext = "interleaved"
    THEN <<Basic("Infer::MethodArgumentMismatch", 1),
           Basic("Infer::MethodArgumentMismatch", Len(files)),
           Basic("Resolver::StubConstant", 1)>>
    ELSE IF ext = "sections"
    THEN <<ComplexError("Infer::MethodArgumentMismatch", At(Len(files)), "error",
                        <<ErrorSection("h1", <<ErrorLine(At(1), "m1")>>),
                          ErrorSection("h2", <<ErrorLine(At(Len(files)), "")>>)>>)>>
    ELSE <<ComplexError("Infer::MethodArgumentMismatch", At(Len(files)), "error",
                        <<ErrorSection("h1", <<ErrorLine(At(1), "m1")>>),
                          ErrorSection("h2", <<ErrorLine(At(Len(files)), ""),
                                               ErrorLine(At(Len(files)), "m3")>>)>>)>>

\* opts.inputFileNames.
InputFileNames == << <<"a">> >>

\* The ascending list of the members of a set of numbers.
RECURSIVE Ascending(_)
Ascending(S) ==
    IF S = {} THEN <<>>
    ELSE LET m == CHOOSE x \in S : \A y \in S : x <= y IN <<m>> \o Ascending(S \ {m})

\* indexed[id] = move(t), after indexed.resize(id + 1) when id is beyond
\* the end; slot id of the vector is place id + 1 here.
StoreTree(indexed, t) ==
    [i \in 1..(IF t.file >= Len(indexed) THEN t.file + 1 ELSE Len(indexed)) |->
        IF i = t.file + 1 THEN t ELSE IF i <= Len(indexed) THEN indexed[i] ELSE NoTree]

RECURSIVE StoreTrees(_, _)
StoreTrees(indexed, trees) ==
    IF trees = <<>> THEN indexed ELSE StoreTrees(StoreTree(indexed, Head(trees)), Tail(trees))

Reindexed(loop, idx) ==
    [loop EXCEPT !.initialGS = idx.gs, !.indexed = StoreTrees(<<>>, idx.trees)]

\* LSPLoop::reIndex.
reIndex(loop, initial, ext) ==
    Reindexed(loop,
              index(loop.initialGS,
                    IF initial THEN InputFileNames ELSE <<>>,
                    IF initial THEN <<>>
                    ELSE Ascending({i \in DOMAIN loop.initialGS.files :
                                       loop.initialGS.files[i].source_type = "Normal"}),
                    Indexed(ext)))

\* LSPLoop::invalidateAllErrors.
invalidateAllErrors(loop) == [loop EXCEPT !.errorsAccumulated = <<>>, !.updatedErrors = <<>>]

\* A runSlowPath that indexes the changed files before it copies the
\* cached trees.
runSlowPath_IndexesFirst(loop, changedFiles, ext) ==
    [invalidateAllErrors(loop) EXCEPT
        !.initialGS = [files |-> EnterAll(loop.initialGS, changedFiles).files,
                       errorQueue |-> loop.initialGS.errorQueue
                                      \o Reported(ext, EnterAll(loop.initialGS, changedFiles).files)],
        !.finalGs = [null |-> FALSE,
                     files |-> EnterAll(loop.initialGS, changedFiles).files,
                     symbols |-> SymbolsOf(EnterAll(loop.initialGS, changedFiles).files)],
        !.indexedCopies =
            index(loop.initialGS, <<>>,
                  [i \in DOMAIN changedFiles |-> Len(loop.initialGS.files) + i],
                  Indexed(ext)).trees
            \o CopyTrees(loop.indexed),
        !.slowPaths = @ + 1]

\* A slow path that stores the trees of the changed files in the cache.
runSlowPath_CachesChanged(loop, changedFiles, ext) ==
    [invalidateAllErrors(loop) EXCEPT
        !.initialGS = [files |-> EnterAll(loop.initialGS, changedFiles).files,
                       errorQueue |-> loop.initialGS.errorQueue
                                      \o Reported(ext, EnterAll(loop.initialGS, changedFiles).files)],
        !.finalGs = [null |-> FALSE,
                     files |-> EnterAll(loop.initialGS, changedFiles).files,
                     symbols |-> SymbolsOf(EnterAll(loop.initialGS, changedFiles).files)],
        !.indexed =
            StoreTrees(@, index(loop.initialGS, <<>>,
                                [i \in DOMAIN changedFiles |-> Len(loop.initialGS.files) + i],
                                Indexed(ext)).trees),
        !.indexedCopies =
            CopyTrees(loop.indexed)
            \o index(loop.initialGS, <<>>,
                     [i \in DOMAIN changedFiles |-> Len(loop.initialGS.files) + i],
                     Indexed(ext)).trees,
        !.slowPaths = @ + 1]

\* LSPLoop::runSlowPath.  The copies of the cached trees and the trees of
\* the changed files go to resolve and typecheck; finalGs is a copy of
\* initialGS with the symbols they define, and what they report is queued.
runSlowPath(loop, changedFiles, ext) ==
    [invalidateAllErrors(loop) EXCEPT
        !.initialGS = [files |-> EnterAll(loop.initialGS, changedFiles).files,
                       errorQueue |-> loop.initialGS.errorQueue
                                      \o Reported(ext, EnterAll(loop.initialGS, changedFiles).files)],
        !.finalGs = [null |-> FALSE,
                     files |-> EnterAll(loop.initialGS, changedFiles).files,
                     symbols |-> SymbolsOf(EnterAll(loop.initialGS, changedFiles).files)],
        !.indexedCopies =
            CopyTrees(loop.indexed)
            \o index(loop.initialGS, <<>>,
                     [i \in DOMAIN changedFiles |-> Len(loop.initialGS.files) + i],
                     Indexed(ext)).trees,
        !.slowPaths = @ + 1]

\* LSPLoop::tryFastPath.
tryFastPath(loop, changedFiles, ext) == runSlowPath(loop, changedFiles, ext)

\* A silenceError that leaves the resolver's classes through.
silenceError_NamerOnly(what) == what = "Namer::RedefinitionOfMethod"

silenceError(what) ==
    what \in {"Namer::RedefinitionOfMethod", "Resolver::DuplicateVariableDeclaration",
              "Resolver::RedefinitionOfParents"}

\* The first loop of drainErrors, over the errors drained from the queue.
RECURSIVE Accumulate(_, _)
Accumulate(loop, errors) ==
    IF errors = <<>> THEN loop
    ELSE IF silenceError(Head(errors).what) THEN Accumulate(loop, Tail(errors))
    ELSE Accumulate(
            [loop EXCEPT
                !.errorsAccumulated =
                    Put(@, Head(errors).loc.file,
                        (IF Head(errors).loc.file \in DOMAIN @ THEN @[Head(errors).loc.file] ELSE <<>>)
                        \o <<Head(errors)>>),
                !.updatedErrors =
                    IF @ # <<>> /\ @[Len(@)] = Head(errors).loc.file THEN @
                    ELSE Append(@, Head(errors).loc.file)],
            Tail(errors))

\* The second loop of drainErrors: the entries of tombstoned files go.
DropTombStones(loop) ==
    [loop EXCEPT !.errorsAccumulated =
        [f \in {g \in DOMAIN @ : loop.initialGS.files[g].source_type # "TombStone"} |-> @[f]]]

\* LSPLoop::drainErrors.
drainErrors(loop) ==
    DropTombStones(Accumulate([loop EXCEPT !.initialGS.errorQueue = <<>>,
                                           !.drained = loop.initialGS.errorQueue],
                              loop.initialGS.errorQueue))

\* A loc2Range that leaves the start column as it is.
loc2Range_StartColumnKept(loc) ==
    [start |-> [line |-> loc.begin.line - 1, character |-> loc.begin.column],
     end |-> [line |-> loc.end.line - 1, character |-> loc.end.column - 1]]

\* LSPLoop::loc2Range.
loc2Range(loc) ==
    [start |-> [line |-> loc.begin.line - 1, character |-> loc.begin.column - 1],
     end |-> [line |-> loc.end.line - 1, character |-> loc.end.column - 1]]

\* The parameters pushErrors builds for one file.
\* The uri of a line of a section (lines 467-489): a payload file's path
\* with "#L" and the line, rootUri/path for the others.
formattedMessageFilePath(loop, loc) ==
    IF loop.finalGs.files[loc.file].source_type = "Payload"
    THEN loop.finalGs.files[loc.file].path \o <<"#", "L", ToString(loc.begin.line)>>
    ELSE loop.rootUri \o <<"/">> \o loop.finalGs.files[loc.file].path

\* The entries one section adds to relatedInformation (lines 459-502).
\* relatedInfo and location are made once for the section; AddMember and
\* PushBack move their argument and leave it null. The first line builds
\* its entry; from the second line on the members are added to values that
\* are null, which rapidjson forbids: where the build goes on, the value
\* pushed is the null one.
RelatedOfSection(loop, section) ==
    [j \in DOMAIN section.messages |->
        IF j = 1
        THEN [k |-> "obj",
              location |-> [uri |-> formattedMessageFilePath(loop, section.messages[j].loc),
                            range |-> loc2Range(section.messages[j].loc)],
              message |-> IF section.messages[j].formattedMessage # ""
                          THEN section.messages[j].formattedMessage
                          ELSE section.header]
        ELSE Null]

RECURSIVE RelatedInformation(_, _)
RelatedInformation(loop, sections) ==
    IF sections = <<>> THEN <<>>
    ELSE RelatedOfSection(loop, Head(sections)) \o RelatedInformation(loop, Tail(sections))

\* One diagnostic of publishDiagnosticsParams (lines 448-506).
Diagnostic(loop, e) ==
    IF e.complex
    THEN [range |-> loc2Range(e.loc), code |-> e.what, message |-> e.formatted,
          relatedInformation |-> RelatedInformation(loop, e.sections)]
    ELSE [range |-> loc2Range(e.loc), code |-> e.what, message |-> e.formatted]

publishDiagnosticsParams(loop, file) ==
    [k |-> "obj",
     uri |-> IF loop.finalGs.files[file].source_type = "Payload"
             THEN loop.finalGs.files[file].path
             ELSE loop.rootUri \o <<"/">> \o loop.finalGs.files[file].path,
     diagnostics |->
        [i \in DOMAIN loop.errorsAccumulated[file] |-> Diagnostic(loop, loop.errorsAccumulated[file][i])]]

\* errorsAccumulated[file] makes the entry when there is none.
WithEntry(s, file) ==
    IF file \in DOMAIN s.lsp.errorsAccumulated THEN s
    ELSE [s EXCEPT !.lsp.errorsAccumulated = Put(@, file, <<>>)]

PublishFile(s, file) ==
    sendNotification(s, PushDiagnostics, publishDiagnosticsParams(s.lsp, file))

\* The loop of pushErrors over updatedErrors; file.exists() is file > 0.
RECURSIVE PublishEach(_, _)
PublishEach(s, files) ==
    IF files = <<>> THEN s
    ELSE IF Head(files) > 0 THEN PublishEach(PublishFile(WithEntry(s, Head(files)), Head(files)), Tail(files))
    ELSE PublishEach(s, Tail(files))

\* A publish loop over every file of finalGs.
PublishUpdated_EveryFile(s) ==
    PublishEach(s, [i \in DOMAIN s.lsp.finalGs.files |-> i])

PublishUpdated(s) == PublishEach(s, s.lsp.updatedErrors)

\* LSPLoop::pushErrors.
pushErrors(s) ==
    [PublishUpdated([s EXCEPT !.lsp = drainErrors(@)]) EXCEPT !.lsp.updatedErrors = <<>>]

(***************************************************************************)
(* The dispatcher.  s is the loop at one point of runLSP: the members of   *)
(* the object, the trace and pc.                                           *)
(***************************************************************************)
\* The files the onResult callback of the readFile request makes of the
\* edits (lines 100-108).
RECURSIVE EditedFiles(_, _)
EditedFiles(loop, edits) ==
    IF edits = <<>> THEN <<>>
    ELSE (IF startsWith(Head(edits).uri, loop.rootUri)
          THEN <<File(remoteName2Local(loop, Head(edits).uri), Head(edits).content, "Normal")>>
          ELSE <<>>)
         \o EditedFiles(loop, Tail(edits))

\* A call of a callback of sendRequest: "applyEdits" is the onResult of
\* lines 95-112, "ignore" the empty onError of line 113.
Invoke(s, func, arg, ext) ==
    IF func = "applyEdits"
    THEN IF \E i \in DOMAIN arg.items :
               startsWith(arg.items[i].uri, s.lsp.rootUri) /\ length_error(s.lsp, arg.items[i].uri)
         THEN [s EXCEPT !.pc = "crashed"]
         ELSE pushErrors([s EXCEPT !.lsp = tryFastPath(@, EditedFiles(@, arg.items), ext)])
    ELSE s

Reply_KeepsEntry(s, d, member, cb, ext) ==
    IF "id" \in d.has /\ d.id \in DOMAIN s.lsp.awaitingResponse
    THEN Invoke(Emit(s, "call", d, cb, d[member]),
                s.lsp.awaitingResponse[d.id][cb], d[member], ext)
    ELSE s

\* handleReplies for a document that has the member (lines 538-547 for
\* result, 551-560 for error).
Reply(s, d, member, cb, ext) ==
    IF "id" \in d.has /\ d.id \in DOMAIN s.lsp.awaitingResponse
    THEN Invoke(Emit([s EXCEPT !.lsp.awaitingResponse = Erase(@, d.id)], "call", d, cb, d[member]),
                s.lsp.awaitingResponse[d.id][cb], d[member], ext)
    ELSE s

\* LSPLoop::handleReplies: the loop after it, and what it returns.
handleReplies(s, d, ext) ==
    IF "result" \in d.has THEN [s |-> Reply(s, d, "result", "onResult", ext), handled |-> TRUE]
    ELSE IF "error" \in d.has THEN [s |-> Reply(s, d, "error", "onError", ext), handled |-> TRUE]
    ELSE [s |-> s, handled |-> FALSE]

\* A didChange branch that takes the text of the last content change.
DidChange_LastChange(s, d, ext) ==
    IF startsWith(d.params.uri, s.lsp.rootUri)
    THEN IF length_error(s.lsp, d.params.uri)
         THEN [s EXCEPT !.pc = "crashed"]
         ELSE pushErrors([s EXCEPT !.lsp =
                  tryFastPath(@, <<File(remoteName2Local(@, d.params.uri),
                                        d.params.contentChanges[Len(d.params.contentChanges)].text,
                                        "Normal")>>,
                              ext)])
    ELSE s

\* The textDocument/didChange branch of runLSP (lines 115-135).
DidChange(s, d, ext) ==
    IF startsWith(d.params.uri, s.lsp.rootUri)
    THEN IF length_error(s.lsp, d.params.uri)
         THEN [s EXCEPT !.pc = "crashed"]
         ELSE pushErrors([s EXCEPT !.lsp =
                  tryFastPath(@, <<File(remoteName2Local(@, d.params.uri), d.params.contentChanges[1].text, "Normal")>>,
                              ext)])
    ELSE s

\* The notifications of runLSP with an exit that does not return.
Notification_ExitReadsOn(s, d, method, ext) ==
    IF method = DidChangeWatchedFiles
    THEN sendRequest(s, ReadFile, d.params, "applyEdits", "ignore")
    ELSE IF method = TextDocumentDidChange
    THEN DidChange(s, d, ext)
    ELSE IF method = Inititalized
    THEN pushErrors([s EXCEPT !.lsp = runSlowPath(reIndex(@, TRUE, ext), <<>>, ext)])
    ELSE s

\* The notifications of runLSP (lines 91-148).
Notification(s, d, method, ext) ==
    IF method = DidChangeWatchedFiles
    THEN sendRequest(s, ReadFile, d.params, "applyEdits", "ignore")
    ELSE IF method = TextDocumentDidChange
    THEN DidChange(s, d, ext)
    ELSE IF method = Inititalized
    THEN pushErrors([s EXCEPT !.lsp = runSlowPath(reIndex(@, TRUE, ext), <<>>, ext)])
    ELSE IF method = Exit
    THEN [s EXCEPT !.pc = "returned"]
    ELSE s

\* LSPLoop::uri2FileRef.
uri2FileRef(loop, uri) ==
    IF ~startsWith(uri, loop.rootUri) THEN 0
    ELSE IF \E i \in DOMAIN loop.finalGs.files :
                /\ loop.finalGs.files[i].source_type # "TombStone"
                /\ loop.finalGs.files[i].path = remoteName2Local(loop, uri)
    THEN CHOOSE i \in DOMAIN loop.finalGs.files :
            /\ loop.finalGs.files[i].source_type # "TombStone"
            /\ loop.finalGs.files[i].path = remoteName2Local(loop, uri)
            /\ \A j \in 1..(i - 1) :
                  \/ loop.finalGs.files[j].source_type = "TombStone"
                  \/ loop.finalGs.files[j].path # remoteName2Local(loop, uri)
    ELSE 0

\* file.data(*finalGs).path() of fileRef2Uri (line 658). The file table
\* starts at 1 and the invalid FileRef is no entry of it: where the read
\* does not stop the process, the path is read as empty.
PathOf(gs, file) == IF file \in DOMAIN gs.files THEN gs.files[file].path ELSE <<>>

\* The walk of lines 170-178 compares definitionLoc.file with fref by
\* value: when fref is the invalid FileRef, the symbols that have no
\* definition file are equal to it, and symbolRef2SymbolInformation calls
\* loc2Location on their loc (line 235), which reads the data of a file
\* that is none.
InvalidFileRead(loop, fref) ==
    /\ fref = 0
    /\ \E idx \in DOMAIN loop.finalGs.symbols : loop.finalGs.symbols[idx].definitionLoc.file = 0

\* LSPLoop::symbolRef2SymbolInformation: the kind members added, or
\* nullptr (here Null) for the other symbols.
symbolRef2SymbolInformation(loop, sym) ==
    IF sym.kind \in {"module", "class", "classOther", "initialize", "method", "field",
                     "staticField", "methodArgument", "typeMember", "typeArgument"}
    THEN [k |-> "obj", name |-> sym.name, containerName |-> sym.owner,
          location |-> [uri |-> localName2Remote(loop, PathOf(loop.finalGs, sym.definitionLoc.file)),
                        range |-> loc2Range(sym.definitionLoc)],
          kind |-> CASE sym.kind = "module" -> <<2>>
                     [] sym.kind = "class" -> <<5>>
                     [] sym.kind = "classOther" -> <<>>
                     [] sym.kind = "initialize" -> <<9>>
                     [] sym.kind = "method" -> <<6>>
                     [] sym.kind = "field" -> <<8>>
                     [] sym.kind = "staticField" -> <<14>>
                     [] sym.kind = "methodArgument" -> <<13>>
                     [] OTHER -> <<26>>]
    ELSE Null

\* The loop of lines 170-178 over the symbols from idx on.
RECURSIVE DocumentSymbols(_, _, _)
DocumentSymbols(loop, fref, idx) ==
    IF idx > Len(loop.finalGs.symbols) THEN <<>>
    ELSE (IF /\ loop.finalGs.symbols[idx].definitionLoc.file = fref
             /\ symbolRef2SymbolInformation(loop, loop.finalGs.symbols[idx]) # Null
          THEN <<symbolRef2SymbolInformation(loop, loop.finalGs.symbols[idx])>>
          ELSE <<>>)
         \o DocumentSymbols(loop, fref, idx + 1)

\* The requests of runLSP (lines 149-191).  finalGs is dereferenced
\* without a test: when it is null the read is undefined, ub is what the
\* build makes of it ("crash", or "empty" for a symbol count read as 0).
Request(s, d, method, ub) ==
    IF method = Initialize
    THEN sendResult([s EXCEPT !.lsp.rootUri = d.params.rootUri], d,
                    [k |-> "obj",
                     capabilities |-> [textDocumentSync |-> 1, documentSymbolProvider |-> TRUE]])
    ELSE IF method = Shutdown
    THEN sendResult(s, d, Null)
    ELSE IF method = TextDocumentDocumentSymbol
    THEN IF s.lsp.finalGs.null
         THEN IF ub = "crash" THEN [s EXCEPT !.pc = "crashed"]
              ELSE sendResult(s, d, [k |-> "arr", items |-> <<>>])
         ELSE IF startsWith(d.params.uri, s.lsp.rootUri) /\ length_error(s.lsp, d.params.uri)
         THEN [s EXCEPT !.pc = "crashed"]
         ELSE IF ub = "crash" /\ InvalidFileRead(s.lsp, uri2FileRef(s.lsp, d.params.uri))
         THEN [s EXCEPT !.pc = "crashed"]
         ELSE sendResult(s, d, [k |-> "arr",
                                items |-> DocumentSymbols(s.lsp, uri2FileRef(s.lsp, d.params.uri), 1)])
    ELSE sendError(s, d, MethodNotFound, "Unknown method: " \o method.name)

\* Lines 88-191 for a document that is not a reply.
Dispatch(s, d, method, ext, ub) ==
    IF method.isNotification THEN Notification(s, d, method, ext)
    ELSE Request(s, d, method, ub)

\* Line 88 reads d["method"].GetString() without a test that the member
\* is there. On a document without it rapidjson's operator[] asserts, and
\* the build decides: with assertions the process aborts, without them
\* operator[] yields a null Value whose GetString is read as the empty
\* name (ub = "empty").
AfterReplies(r, d, ext, ub) ==
    IF r.handled THEN r.s
    ELSE IF "method" \notin d.has /\ ub = "crash" THEN [r.s EXCEPT !.pc = "crashed"]
    ELSE Dispatch(r.s, d, getMethod(d.method), ext, ub)

\* One turn of the while loop of runLSP for the document d (lines 84-191).
Turn(s, d, ext, ub) == AfterReplies(handleReplies(s, d, ext), d, ext, ub)

(***************************************************************************)
(* The documents the client sends, and the loop.                           *)
(***************************************************************************)
RootUri == <<"r">>

UriUnderRoot == <<"r", "/", "a">>

UriElsewhere == <<"o", "/", "a">>

\* A URI that begins with the characters of RootUri, not followed by "/".
UriSibling == <<"r", "x", "/", "a">>

Requests ==
    {Doc({"id", "method", "params"}, "1", "initialize", [k |-> "obj", rootUri |-> RootUri], Null, Null),
     Doc({"id", "method", "params"}, "1", "shutdown", Null, Null, Null),
     Doc({"id", "method", "params"}, "1", "textDocument/documentSymbol",
         [k |-> "obj", uri |-> UriUnderRoot], Null, Null),
     Doc({"id", "method", "params"}, "1", "textDocument/hover", Null, Null, Null)}

Notifications ==
    {Doc({"method", "params"}, "", "initialized", Null, Null, Null),
     Doc({"method", "params"}, "", "exit", Null, Null, Null),
     Doc({"method", "params"}, "", "workspace/didChangeWatchedFiles",
         [k |-> "obj", changes |-> <<UriUnderRoot>>], Null, Null),
     Doc({"id", "method", "params"}, "2", "foo/bar", Null, Null, Null),
     Doc({"method", "params"}, "", "foo/bar", Null, Null, Null)}
    \cup
    {Doc({"method", "params"}, "", "textDocument/didChange",
         [k |-> "obj", uri |-> u, contentChanges |-> <<[text |-> "t"]>>], Null, Null) : u \in {UriUnderRoot, UriElsewhere}}

\* Edits for URIs that begin with the characters of RootUri and lack the
\* separator after them.
OffRootEdits ==
    {Doc({"method", "params"}, "", "textDocument/didChange",
         [k |-> "obj", uri |-> u, contentChanges |-> <<[text |-> "t"]>>], Null, Null) : u \in {UriSibling, RootUri}}

Edits == [k |-> "arr", items |-> <<[uri |-> UriUnderRoot, content |-> "t2"]>>]

Failure == [k |-> "obj", code |-> 1, message |-> "no"]

ReplyIds == {idStr(1), idStr(2)}

Replies ==
    {Doc({"id", "result"}, id, "", Null, Edits, Null) : id \in ReplyIds}
    \cup {Doc({"id", "error"}, id, "", Null, Null, Failure) : id \in ReplyIds}
    \cup {Doc({"id", "result", "error"}, idStr(1), "", Null, Edits, Failure),
          Doc({"result"}, "", "", Null, Edits, Null)}

MaxMsgs == 3

\* The LSPLoop object when runLSP is entered.
LSPLoop ==
    [rootUri |-> <<>>,
     requestCounter |-> 0,
     awaitingResponse |-> <<>>,
     initialGS |-> [files |-> <<File(<<"p">>, "stub", "Payload")>>, errorQueue |-> <<>>],
     finalGs |-> NullGS,
     indexed |-> <<>>,
     errorsAccumulated |-> <<>>,
     updatedErrors |-> <<>>,
     indexedCopies |-> <<>>,
     slowPaths |-> 0,
     drained |-> <<>>]

InitLSP ==
    /\ heap = <<>>
    /\ argOrder = "ltr"
    /\ root = nullptr
    /\ last = NoOp
    /\ copies = <<>>
    /\ bodies = <<>>
    /\ lsp = LSPLoop
    /\ trace = <<>>
    /\ pc = "run"

Reads == Cardinality({i \in DOMAIN trace : trace[i].ev = "read"})

NotWrite(e) == e.ev # "write"

\* resolve, called in line 613 with the working vector, reads every entry
\* of it. When runSlowPath ran in the turn that led to s and put a null
\* entry into the vector, that read is undefined: the process dies in
\* resolve, before pushErrors wrote anything (ub = "crash"), or the entry
\* is passed over.
resolve(s, ub) ==
    IF /\ ub = "crash"
       /\ s.lsp.slowPaths > lsp.slowPaths
       /\ \E i \in DOMAIN s.lsp.indexedCopies : s.lsp.indexedCopies[i] = NoTree
    THEN [lsp |-> s.lsp,
          trace |-> trace \o SelectSeq(SubSeq(s.trace, Len(trace) + 1, Len(s.trace)), NotWrite),
          pc |-> "crashed"]
    ELSE s

\* A document written with a relatedInformation entry that was built on
\* moved-from values.
OnNull(e) ==
    /\ e.ev = "write"
    /\ e.doc.method = "textDocument/publishDiagnostics"
    /\ \E i \in DOMAIN e.doc.params.diagnostics :
          /\ "relatedInformation" \in DOMAIN e.doc.params.diagnostics[i]
          /\ \E j \in DOMAIN e.doc.params.diagnostics[i].relatedInformation :
                e.doc.params.diagnostics[i].relatedInformation[j] = Null

\* AddMember on a value that is no object (lines 490-492, second line of
\* a section) fails rapidjson's assertion: in a build with assertions
\* (ub = "crash") the process dies while it builds the notification, the
\* notifications before it written; in a build without them s stands.
AddMemberOnNull(s, ub) ==
    IF ub = "crash" /\ \E i \in (Len(trace) + 1)..Len(s.trace) : OnNull(s.trace[i])
    THEN [lsp |-> s.lsp,
          trace |-> SubSeq(s.trace, 1,
                           (CHOOSE i \in (Len(trace) + 1)..Len(s.trace) :
                               OnNull(s.trace[i])
                               /\ \A j \in (Len(trace) + 1)..(i - 1) : ~OnNull(s.trace[j])) - 1),
          pc |-> "crashed"]
    ELSE s

\* One turn of the loop on the document d.
Step(d, ext, ub) ==
    \E s \in {AddMemberOnNull(resolve(Turn(Emit([lsp |-> lsp, trace |-> trace, pc |-> pc],
                                                 "read", d, "", Null),
                                            d, ext, ub), ub), ub)} :
       /\ lsp' = s.lsp
       /\ trace' = s.trace
       /\ pc' = s.pc

ReadReply ==
    /\ pc = "run"
    /\ Reads < MaxMsgs
    /\ \E d \in Replies, ext \in Exts, ub \in {"crash", "empty"} : Step(d, ext, ub)
    /\ UNCHANGED <<heap, argOrder, root, last, copies, bodies>>

ReadNotification ==
    /\ pc = "run"
    /\ Reads < MaxMsgs
    /\ \E d \in Notifications, ext \in Exts, ub \in {"crash", "empty"} : Step(d, ext, ub)
    /\ UNCHANGED <<heap, argOrder, root, last, copies, bodies>>

ReadRequest ==
    /\ pc = "run"
    /\ Reads < MaxMsgs
    /\ \E d \in Requests, ub \in {"crash", "empty"} : Step(d, "none", ub)
    /\ UNCHANGED <<heap, argOrder, root, last, copies, bodies>>

\* The headers end without a Content-Length (lines 70-73).
ReadEOF ==
    /\ pc = "run"
    /\ pc' = "returned"
    /\ trace' = Append(trace, Event("eof", Doc({}, "", "", Null, Null, Null), "", Null))
    /\ UNCHANGED <<heap, argOrder, root, last, copies, bodies, lsp>>

\* The payload does not parse (lines 79-82).
ReadParseError ==
    /\ pc = "run"
    /\ Reads < MaxMsgs
    /\ pc' = "returned"
    /\ trace' = Append(trace, Event("parse error", Doc({}, "", "", Null, Null, Null), "", Null))
    /\ UNCHANGED <<heap, argOrder, root, last, copies, bodies, lsp>>

(***************************************************************************)
(* The loop on any input: SpecLSP reads documents that are well formed and *)
(* an input that ends between two messages; SpecLSPAnyInput adds the edits *)
(* of OffRootEdits, an input that ends inside a header block, and          *)
(* documents that lack a member the loop reads.                            *)
(***************************************************************************)
ReadOffRootEdit ==
    /\ pc = "run"
    /\ Reads < MaxMsgs
    /\ \E d \in OffRootEdits, ext \in Exts, ub \in {"crash", "empty"} : Step(d, ext, ub)
    /\ UNCHANGED <<heap, argOrder, root, last, copies, bodies>>

\* An initialized notification for which the indexer yields trees that
\* deepCopy does not copy.
ReadUncopyable ==
    /\ pc = "run"
    /\ Reads < MaxMsgs
    /\ \E ub \in {"crash", "empty"} :
          Step(Doc({"method", "params"}, "", "initialized", Null, Null, Null), "uncopyable", ub)
    /\ UNCHANGED <<heap, argOrder, root, last, copies, bodies>>

\* Documents that parse, are no replies and have no method member.
NoMethod ==
    {Doc({"id", "params"}, "1", "", Null, Null, Null),
     Doc({"params"}, "", "", Null, Null, Null)}

ReadNoMethod ==
    /\ pc = "run"
    /\ Reads < MaxMsgs
    /\ \E d \in NoMethod, ub \in {"crash", "empty"} : Step(d, "none", ub)
    /\ UNCHANGED <<heap, argOrder, root, last, copies, bodies>>

\* The payload buffer of runLSP (line 54), declared outside the loop: it
\* holds the payload of the last message read.
json == trace[CHOOSE i \in DOMAIN trace :
                 trace[i].ev = "read" /\ \A j \in DOMAIN trace : trace[j].ev = "read" => j <= i].doc

\* The turn of lines 75-191 on the payload left in the buffer, and the
\* next header block, which finds the end of input (lines 70-73).
Reparse(ext, ub) ==
    \E s \in {AddMemberOnNull(resolve(Turn(Emit([lsp |-> lsp, trace |-> trace, pc |-> pc],
                                                 "reparse", json, "", Null),
                                            json, ext, ub), ub), ub)} :
       /\ lsp' = s.lsp
       /\ trace' = IF s.pc = "run"
                   THEN Append(s.trace, Event("eof", Doc({}, "", "", Null, Null, Null), "", Null))
                   ELSE s.trace
       /\ pc' = IF s.pc = "run" THEN "returned" ELSE s.pc

\* The input ends after a Content-Length line and before the empty line:
\* safeGetline has returned the line, sscanf has set length, and the next
\* safeGetline fails (lines 61-67), so length >= 0 and line 70 does not
\* return. cin.read reads nothing and the buffer keeps what resize left
\* of the last payload: all of it if the length announced is at least
\* its size (fits), and then it parses again; a proper prefix of it or,
\* before the first message, nothing, and then the parse fails.
ReadEOFAfterLength ==
    /\ pc = "run"
    /\ \E fits \in BOOLEAN, ext \in Exts, ub \in {"crash", "empty"} :
          IF Reads > 0 /\ fits
          THEN Reparse(ext, ub)
          ELSE /\ pc' = "returned"
               /\ trace' = Append(trace, Event("parse error", Doc({}, "", "", Null, Null, Null), "", Null))
               /\ lsp' = lsp
    /\ UNCHANGED <<heap, argOrder, root, last, copies, bodies>>

NextLSP == ReadReply \/ ReadNotification \/ ReadRequest \/ ReadEOF \/ ReadParseError

SpecLSP == InitLSP /\ [][NextLSP]_vars

(***************************************************************************)
(* The loop on the batches of Batches: SpecPublish reads initialize, and   *)
(* initialized and edits under the root for which the pipeline queues any  *)
(* batch.                                                                  *)
(***************************************************************************)
ReadInitialize ==
    /\ pc = "run"
    /\ Reads < MaxMsgs
    /\ Step(Doc({"id", "method", "params"}, "1", "initialize", [k |-> "obj", rootUri |-> RootUri],
                Null, Null),
            "none", "crash")
    /\ UNCHANGED <<heap, argOrder, root, last, copies, bodies>>

Analysed ==
    {Doc({"method", "params"}, "", "initialized", Null, Null, Null),
     Doc({"method", "params"}, "", "textDocument/didChange",
         [k |-> "obj", uri |-> UriUnderRoot, contentChanges |-> <<[text |-> "t"]>>], Null, Null),
     Doc({"method", "params"}, "", "textDocument/didChange",
         [k |-> "obj", uri |-> UriUnderRoot, contentChanges |-> <<[text |-> "t"], [text |-> "u"]>>],
         Null, Null)}

ReadAnalysed ==
    /\ pc = "run"
    /\ Reads < MaxMsgs
    /\ \E d \in Analysed, ext \in Batches, ub \in {"crash", "empty"} : Step(d, ext, ub)
    /\ UNCHANGED <<heap, argOrder, root, last, copies, bodies>>

NextPublish == ReadInitialize \/ ReadAnalysed

SpecPublish == InitLSP /\ [][NextPublish]_vars

(***************************************************************************)
(* loc2Range on any two locs: SpecRange starts from two locs with lines    *)
(* and columns from 1 to MaxPos and converts both.                         *)
(***************************************************************************)
MaxPos == 2

Positions == {Pos(l, c) : l \in 1..MaxPos, c \in 1..MaxPos}

Locs == {Loc(1, b, e) : b \in Positions, e \in Positions}

InitRange ==
    /\ heap = <<>>
    /\ argOrder = "ltr"
    /\ root = nullptr
    /\ last = NoOp
    /\ copies = <<>>
    /\ bodies = <<>>
    /\ \E a \in Locs, b \in Locs : lsp = <<a, b>>
    /\ trace = <<>>
    /\ pc = "run"

ConvertLocs ==
    /\ trace = <<>>
    /\ trace' = <<loc2Range(lsp[1]), loc2Range(lsp[2])>>
    /\ UNCHANGED <<heap, argOrder, root, last, copies, bodies, lsp, pc>>

NextRange == ConvertLocs

SpecRange == InitRange /\ [][NextRange]_vars

(***************************************************************************)
(* The documentSymbol request on any symbol table: SpecSymbols starts from *)
(* a loop that has analysed the file a under RootUri, with a table of up   *)
(* to MaxSymbols symbols of that file, of any classification.              *)
(***************************************************************************)
MaxSymbols == 2

\* What isClass, isClassModule, isClassClass, isMethod and the name,
\* isField, isStaticField, isMethodArgument, isTypeMember and
\* isTypeArgument say of a symbol; "classOther" is a class for which
\* neither isClassModule nor isClassClass holds, "local" a symbol for
\* which none of the tests holds.
Classifications ==
    {"module", "class", "classOther", "initialize", "method", "field", "staticField",
     "methodArgument", "typeMember", "typeArgument", "local"}

SymbolTables ==
    UNION {[1..n -> {Symbol(<<"s">>, c, Loc(2, Pos(1, 1), Pos(2, 1)), "<root>") : c \in Classifications}] :
              n \in 1..MaxSymbols}

AnalysedLoop(symbols) ==
    [LSPLoop EXCEPT
        !.rootUri = RootUri,
        !.initialGS.files = Append(@, File(<<"a">>, "disk", "Normal")),
        !.finalGs = [null |-> FALSE,
                     files |-> Append(LSPLoop.initialGS.files, File(<<"a">>, "disk", "Normal")),
                     symbols |-> symbols],
        !.indexed = <<NoTree, NoTree, Tree(2, Lit)>>,
        !.slowPaths = 1]

InitSymbols ==
    /\ heap = <<>>
    /\ argOrder = "ltr"
    /\ root = nullptr
    /\ last = NoOp
    /\ copies = <<>>
    /\ bodies = <<>>
    /\ \E symbols \in SymbolTables : lsp = AnalysedLoop(symbols)
    /\ trace = <<>>
    /\ pc = "run"

ReadDocumentSymbol ==
    /\ pc = "run"
    /\ Reads < MaxMsgs
    /\ Step(Doc({"id", "method", "params"}, "1", "textDocument/documentSymbol",
                [k |-> "obj", uri |-> UriUnderRoot], Null, Null),
            "none", "crash")
    /\ UNCHANGED <<heap, argOrder, root, last, copies, bodies>>

NextSymbols == ReadDocumentSymbol

SpecSymbols == InitSymbols /\ [][NextSymbols]_vars

(***************************************************************************)
(* The documentSymbol request for any uri: SpecSymbolsAnyUri starts from a *)
(* loop that has analysed the file a under RootUri and an edit of it, with *)
(* symbols of either file and symbols that have no definition file, and    *)
(* reads requests for a uri of the file, a uri under the root that matches *)
(* no file and a uri that is not under the root.                           *)
(***************************************************************************)
UriNoMatch == <<"r", "/", "b">>

SymbolTablesAnyFile ==
    UNION {[1..n -> {Symbol(<<"s">>, c, Loc(f, Pos(1, 1), Pos(2, 1)), "<root>") :
                        c \in {"class", "local"}, f \in {0, 2, 3}}] :
              n \in 1..MaxSymbols}

AnalysedTwice(symbols) ==
    [LSPLoop EXCEPT
        !.rootUri = RootUri,
        !.initialGS.files = @ \o <<File(<<"a">>, "disk", "Normal"), File(<<"a">>, "t", "Normal")>>,
        !.finalGs = [null |-> FALSE,
                     files |-> LSPLoop.initialGS.files
                               \o <<File(<<"a">>, "disk", "Normal"), File(<<"a">>, "t", "Normal")>>,
                     symbols |-> symbols],
        !.indexed = <<NoTree, NoTree, Tree(2, Lit)>>,
        !.indexedCopies = <<CopyOf(Tree(2, Lit)), Tree(3, Lit)>>,
        !.slowPaths = 2]

InitSymbolsAnyUri ==
    /\ heap = <<>>
    /\ argOrder = "ltr"
    /\ root = nullptr
    /\ last = NoOp
    /\ copies = <<>>
    /\ bodies = <<>>
    /\ \E symbols \in SymbolTablesAnyFile : lsp = AnalysedTwice(symbols)
    /\ trace = <<>>
    /\ pc = "run"

ReadDocumentSymbolAnyUri ==
    /\ pc = "run"
    /\ Reads < MaxMsgs
    /\ \E u \in {UriUnderRoot, UriNoMatch, UriElsewhere}, ub \in {"crash", "empty"} :
          Step(Doc({"id", "method", "params"}, "1", "textDocument/documentSymbol",
                   [k |-> "obj", uri |-> u], Null, Null),
               "none", ub)
    /\ UNCHANGED <<heap, argOrder, root, last, copies, bodies>>

NextSymbolsAnyUri == ReadDocumentSymbolAnyUri

SpecSymbolsAnyUri == InitSymbolsAnyUri /\ [][NextSymbolsAnyUri]_vars

\* Results of readFile with an entry whose URI begins with the characters
\* of RootUri and lacks the separator after them, before an entry under
\* RootUri.
OffRootReplies ==
    {Doc({"id", "result"}, id, "", Null,
         [k |-> "arr", items |-> <<[uri |-> UriSibling, content |-> "t3"],
                                   [uri |-> UriUnderRoot, content |-> "t2"]>>], Null) :
        id \in ReplyIds}

ReadOffRootReply ==
    /\ pc = "run"
    /\ Reads < MaxMsgs
    /\ \E d \in OffRootReplies, ext \in Exts, ub \in {"crash", "empty"} : Step(d, ext, ub)
    /\ UNCHANGED <<heap, argOrder, root, last, copies, bodies>>

NextLSPAnyInput ==
    \/ NextLSP
    \/ ReadOffRootEdit
    \/ ReadOffRootReply
    \/ ReadUncopyable
    \/ ReadNoMethod
    \/ ReadEOFAfterLength

SpecLSPAnyInput == InitLSP /\ [][NextLSPAnyInput]_vars

(***************************************************************************)
(* Claims about the LSP loop, checked under SpecLSP.                       *)
(***************************************************************************)
\* The places of the trace where the server sent a request of its own.
SentRequests ==
    {i \in DOMAIN trace : trace[i].ev = "write" /\ {"id", "method"} \subseteq trace[i].doc.has}

\* The inbound documents after place i that carry result or error and the
\* id of the request sent at i.
RepliesTo(i) ==
    {j \in DOMAIN trace :
        /\ j > i /\ trace[j].ev = "read"
        /\ "id" \in trace[j].doc.has /\ trace[j].doc.id = trace[i].doc.id
        /\ trace[j].doc.has \cap {"result", "error"} # {}}

\* The callbacks run for the id of the request sent at i.
CallsFor(i) == {j \in DOMAIN trace : trace[j].ev = "call" /\ trace[j].doc.id = trace[i].doc.id}

\* C7: for every request the server sent, the first later inbound document
\* with its id and a result (else an error) runs onResult (else onError)
\* once with the carried value and removes the pending entry; no other
\* document runs a callback for that id, and until such a document comes
\* the entry stays pending and no callback runs.  A document carrying both
\* members counts as a result.
C7_RepliesInvokeOnce ==
    \A i \in SentRequests :
        IF RepliesTo(i) = {}
        THEN CallsFor(i) = {} /\ trace[i].doc.id \in DOMAIN lsp.awaitingResponse
        ELSE LET first == CHOOSE j \in RepliesTo(i) : \A l \in RepliesTo(i) : j <= l IN
             /\ CallsFor(i) = {first + 1}
             /\ trace[first + 1].cb = (IF "result" \in trace[first].doc.has THEN "onResult" ELSE "onError")
             /\ trace[first + 1].arg = (IF "result" \in trace[first].doc.has
                                        THEN trace[first].doc.result ELSE trace[first].doc.error)
             /\ trace[i].doc.id \notin DOMAIN lsp.awaitingResponse

\* A request was answered with a result, onResult ran, and a later document
\* came with the same id.
C7_Witness ==
    \E i \in SentRequests :
        /\ Cardinality(RepliesTo(i)) >= 2
        /\ \E j \in CallsFor(i) : trace[j].cb = "onResult" /\ trace[j].arg = Edits

\* The number n of an id ruby-typer-req-<n>, 0 when the id is not of the form.
IdNumber(id) ==
    IF \E n \in 1..(Len(trace) + 1) : id = idStr(n)
    THEN CHOOSE n \in 1..(Len(trace) + 1) : id = idStr(n)
    ELSE 0

\* C8 as stated: the ids of the requests the server sends are
\* ruby-typer-req-<n> with n = 1 for the first request and n strictly
\* increasing from one request to the next.
C8_RequestIdsCountFromOne ==
    \A i \in SentRequests :
        /\ IdNumber(trace[i].doc.id) >= 1
        /\ (\A j \in SentRequests : i <= j) => IdNumber(trace[i].doc.id) = 1
        /\ \A j \in SentRequests : i < j => IdNumber(trace[i].doc.id) < IdNumber(trace[j].doc.id)

\* What holds of the code in place of C8: the ids are of the form, strictly
\* increasing, and so never shared.
C8_RequestIdsIncrease ==
    \A i \in SentRequests :
        /\ IdNumber(trace[i].doc.id) >= 1
        /\ \A j \in SentRequests : i < j => IdNumber(trace[i].doc.id) < IdNumber(trace[j].doc.id)

\* The inbound documents that are not replies, and for the one read at
\* place i the responses written before the next document is read.
NonReplies ==
    {i \in DOMAIN trace : trace[i].ev = "read" /\ trace[i].doc.has \cap {"result", "error"} = {}}

ResponsesTo(i) ==
    {j \in DOMAIN trace :
        /\ j > i /\ trace[j].ev = "write"
        /\ \A l \in (i + 1)..j : trace[l].ev # "read"
        /\ trace[j].doc.has \cap {"result", "error"} # {}}

Answered(i) ==
    IF getMethod(trace[i].doc.method).isNotification
    THEN ResponsesTo(i) = {}
    ELSE \E j \in ResponsesTo(i) :
            /\ ResponsesTo(i) = {j}
            /\ \E member \in {"result", "error"} :
                  /\ trace[j].doc.has = (trace[i].doc.has \ {"method", "params"}) \cup {member}
                  /\ trace[j].doc.id = trace[i].doc.id

\* C9 as stated: every inbound request that is not a reply gets exactly
\* one response, the envelope with the same id, without method and params
\* and with exactly one of result and error; a notification gets none.
C9_RequestsAnsweredOnce == \A i \in NonReplies : Answered(i)

\* What holds of the code in place of C9: the same, as long as the server
\* has not crashed.
C9_AnsweredUnlessCrashed == pc # "crashed" => \A i \in NonReplies : Answered(i)

Unhandled(d) ==
    /\ d.has \cap {"result", "error"} = {}
    /\ ~getMethod(d.method).isNotification
    /\ d.method \notin {"initialize", "shutdown", "textDocument/documentSymbol"}

Unknown(d) ==
    /\ d.has \cap {"result", "error"} = {}
    /\ "method" \in d.has
    /\ \A i \in DOMAIN ALL : ALL[i].name # d.method

\* C11: a turn of the loop on a message whose method name is not in the
\* registry, with or without an id, writes nothing, leaves every field of
\* the server as it was, and the loop reads on.
C11_UnknownMethodIgnored ==
    [][(/\ Len(trace') > Len(trace)
        /\ trace'[Len(trace) + 1].ev = "read"
        /\ Unknown(trace'[Len(trace) + 1].doc))
       => /\ trace' = Append(trace, trace'[Len(trace) + 1])
          /\ lsp' = lsp
          /\ pc' = "run"]_vars

\* The loop has read foo/bar with an id and foo/bar without one, after an
\* initialized notification that indexed and published, and reads on.
C11_Witness ==
    /\ pc = "run"
    /\ Len(trace) >= 3
    /\ trace[Len(trace)].ev = "read"
    /\ trace[Len(trace) - 1].ev = "read"
    /\ Unknown(trace[Len(trace)].doc)
    /\ Unknown(trace[Len(trace) - 1].doc)
    /\ "id" \in trace[Len(trace)].doc.has
    /\ "id" \notin trace[Len(trace) - 1].doc.has
    /\ ~lsp.finalGs.null

\* A document that is no reply and carries the method name m.
Calls(d, m) == d.has \cap {"result", "error"} = {} /\ "method" \in d.has /\ d.method = m

\* C12: a turn on an exit notification ends the loop having written
\* nothing, and once the loop has returned nothing is read or written any
\* more; a turn on a shutdown request writes one document, the envelope
\* with a null result, leaves the server as it was, and the loop reads on.
C12_ExitStopsShutdownDoesNot ==
    [][/\ pc = "returned" => UNCHANGED vars
       /\ (/\ Len(trace') > Len(trace)
           /\ trace'[Len(trace) + 1].ev = "read"
           /\ Calls(trace'[Len(trace) + 1].doc, "exit"))
          => /\ trace' = Append(trace, trace'[Len(trace) + 1])
             /\ pc' = "returned"
       /\ (/\ Len(trace') > Len(trace)
           /\ trace'[Len(trace) + 1].ev = "read"
           /\ Calls(trace'[Len(trace) + 1].doc, "shutdown"))
          => /\ Len(trace') = Len(trace) + 2
             /\ SubSeq(trace', 1, Len(trace)) = trace
             /\ LET d == trace'[Len(trace) + 1].doc
                    o == trace'[Len(trace) + 2]
                IN /\ o.ev = "write"
                   /\ o.doc.has = (d.has \ {"method", "params"}) \cup {"result"}
                   /\ o.doc.id = d.id
                   /\ o.doc.result = Null
             /\ lsp' = lsp
             /\ pc' = "run"]_vars

\* The loop answered a shutdown request, then answered a request read
\* after it, then read an exit notification and returned.
C12_Witness ==
    /\ pc = "returned"
    /\ Len(trace) = 5
    /\ Calls(trace[1].doc, "shutdown")
    /\ trace[2].ev = "write"
    /\ trace[3].ev = "read"
    /\ trace[4].ev = "write"
    /\ Calls(trace[5].doc, "exit")

\* The URIs of the edits that the document d carries.
EditUris(d) ==
    IF Calls(d, "textDocument/didChange") THEN {d.params.uri}
    ELSE IF "result" \in d.has /\ d.result # Null
    THEN {d.result.items[i].uri : i \in DOMAIN d.result.items}
    ELSE {}

UnderRoot(loop, u) == startsWith(u, loop.rootUri \o <<"/">>)

Paths(gs) == {gs.files[i].path : i \in DOMAIN gs.files}

\* C13: once rootUri is set, a turn on a didChange whose URI lacks the
\* prefix rootUri + "/" writes nothing, changes nothing and the loop reads
\* on; a turn on any edit registers into initialGS only paths of URIs that
\* have the prefix; and uri2FileRef is the invalid FileRef on every URI
\* that lacks it.
C13_EditsOffRootIgnored ==
    [][(/\ lsp.rootUri # <<>>
        /\ Len(trace') > Len(trace)
        /\ trace'[Len(trace) + 1].ev = "read"
        /\ EditUris(trace'[Len(trace) + 1].doc) # {})
       => LET d == trace'[Len(trace) + 1].doc
          IN /\ (Calls(d, "textDocument/didChange") /\ ~UnderRoot(lsp, d.params.uri))
                   => /\ trace' = Append(trace, trace'[Len(trace) + 1])
                      /\ lsp' = lsp
                      /\ pc' = "run"
             /\ \A p \in Paths(lsp'.initialGS) \ Paths(lsp.initialGS) :
                   \E u \in EditUris(d) : UnderRoot(lsp, u) /\ lsp.rootUri \o <<"/">> \o p = u
             /\ \A u \in {UriElsewhere, UriSibling} :
                   (~lsp'.finalGs.null /\ ~UnderRoot(lsp', u)) => uri2FileRef(lsp', u) = 0]_vars

\* After initialize set rootUri to RootUri, a didChange for UriSibling
\* registered the path "/a" and uri2FileRef finds it.
C13_SiblingRegistered ==
    /\ Len(trace) >= 3
    /\ Calls(trace[1].doc, "initialize")
    /\ Calls(trace[3].doc, "textDocument/didChange")
    /\ trace[3].doc.params.uri = UriSibling
    /\ <<"/", "a">> \in Paths(lsp.initialGS)
    /\ uri2FileRef(lsp, UriSibling) # 0

\* C14: a step in which the input ends inside a header block, with or
\* without Content-Length lines read, dispatches nothing: the loop returns,
\* no document is handled from the payload buffer, nothing is written and
\* no field of the server changes.
C14_EOFInHeadersDispatchesNothing ==
    [][(/\ Len(trace') > Len(trace)
        /\ trace'[Len(trace) + 1].ev \in {"eof", "reparse"})
       => /\ trace' = Append(trace, trace'[Len(trace) + 1])
          /\ trace'[Len(trace) + 1].ev = "eof"
          /\ lsp' = lsp
          /\ pc' = "returned"]_vars

\* A didChange under the root was handled, then the input ended after a
\* Content-Length line, and the didChange was handled a second time and
\* published again.
C14_Redispatched ==
    /\ pc = "returned"
    /\ \E i \in DOMAIN trace :
          /\ trace[i].ev = "reparse"
          /\ Calls(trace[i].doc, "textDocument/didChange")
          /\ i < Len(trace) - 1
          /\ trace[i + 1].ev = "write"

\* C15: a step on a payload that does not parse, or on a document that is
\* no reply and has no method member, ends the loop: nothing but the read
\* is recorded, no field of the server changes, nothing is written and
\* the loop does not read on.
C15_ProtocolErrorsTerminate ==
    [][(/\ Len(trace') > Len(trace)
        /\ \/ trace'[Len(trace) + 1].ev = "parse error"
           \/ /\ trace'[Len(trace) + 1].ev = "read"
              /\ trace'[Len(trace) + 1].doc.has \cap {"result", "error", "method"} = {})
       => /\ trace' = Append(trace, trace'[Len(trace) + 1])
          /\ lsp' = lsp
          /\ pc' # "run"]_vars

\* The loop read a document without method, result and error, and after
\* it read and answered a request.
C15_ReadOn ==
    \E i \in DOMAIN trace :
       /\ trace[i].ev = "read"
       /\ trace[i].doc.has \cap {"result", "error", "method"} = {}
       /\ i + 2 <= Len(trace)
       /\ trace[i + 1].ev = "read"
       /\ trace[i + 2].ev = "write"

\* C16: in a step in which runSlowPath runs while a tree cached in indexed
\* is one that deepCopy does not copy, the working vector handed to
\* resolve has no null entry and finalGs stays the one it was.
C16_CopyFailurePropagates ==
    [][(/\ lsp'.slowPaths > lsp.slowPaths
        /\ \E i \in DOMAIN lsp'.indexed :
              lsp'.indexed[i] # NoTree /\ CopyOf(lsp'.indexed[i]) = NoTree)
       => /\ \A i \in DOMAIN lsp'.indexedCopies : lsp'.indexedCopies[i] # NoTree
          /\ lsp'.finalGs = lsp.finalGs]_vars

\* The cached tree of the input file is not copyable, runSlowPath handed
\* resolve a working vector with a null entry, finalGs was replaced and the
\* diagnostics of the run were published.
C16_NullHandedToResolve ==
    /\ pc = "run"
    /\ \E i \in DOMAIN lsp.indexedCopies : lsp.indexedCopies[i] = NoTree
    /\ ~lsp.finalGs.null
    /\ Len(trace) >= 2
    /\ Calls(trace[Len(trace) - 1].doc, "textDocument/didChange")
    /\ trace[Len(trace)].ev = "write"

(***************************************************************************)
(* Claims about the diagnostics, checked under SpecPublish.                *)
(***************************************************************************)
SilencedClasses ==
    {"Namer::RedefinitionOfMethod", "Resolver::DuplicateVariableDeclaration",
     "Resolver::RedefinitionOfParents"}

\* The diagnostics of the batch that are of file f and not silenced, in
\* the order of the batch.
Kept(f, batch) ==
    LET Test(e) == e.loc.file = f /\ e.what \notin SilencedClasses IN SelectSeq(batch, Test)

\* The places of the trace where a publishDiagnostics was written.
Published(tr) ==
    {i \in DOMAIN tr : tr[i].ev = "write" /\ tr[i].doc.method = "textDocument/publishDiagnostics"}

\* The uri under which the diagnostics of file f are published.
UriOf(loop, f) == publishDiagnosticsParams([loop EXCEPT !.errorsAccumulated = Put(@, f, <<>>)], f).uri

\* The publish cycle this step ran.
Cycle == lsp'.slowPaths > lsp.slowPaths

\* C17: after a publish cycle no accumulator and no publishDiagnostics
\* written holds a diagnostic of the three silenced classes; the files
\* published in the cycle are files with a drained diagnostic of another
\* class; and the accumulator of every file is the drained diagnostics of
\* that file that are of another class, in drain order.
C17_SilencedNeverSurface ==
    [][Cycle
       => /\ \A f \in DOMAIN lsp'.errorsAccumulated :
                /\ \A i \in DOMAIN lsp'.errorsAccumulated[f] :
                      lsp'.errorsAccumulated[f][i].what \notin SilencedClasses
                /\ lsp'.errorsAccumulated[f] = Kept(f, lsp'.drained)
          /\ \A i \in Published(trace') :
                \A j \in DOMAIN trace'[i].doc.params.diagnostics :
                   trace'[i].doc.params.diagnostics[j].code \notin SilencedClasses
          /\ \A i \in Published(trace') \ Published(trace) :
                \E f \in DOMAIN lsp'.finalGs.files :
                   /\ Kept(f, lsp'.drained) # <<>>
                   /\ trace'[i].doc.params.uri = UriOf(lsp', f)
          /\ \A f \in DOMAIN lsp'.finalGs.files :
                Kept(f, lsp'.drained) # <<>>
                => f \in DOMAIN lsp'.errorsAccumulated]_vars

\* A cycle drained diagnostics of the three silenced classes for a file
\* that got no accumulator and no notification while another file was
\* published, and an earlier cycle accumulated two diagnostics for a file
\* between silenced ones.
C17_Witness ==
    /\ pc = "run"
    /\ \E f \in DOMAIN lsp.finalGs.files :
          /\ \E i \in DOMAIN lsp.drained : lsp.drained[i].loc.file = f
          /\ Kept(f, lsp.drained) = <<>>
          /\ f \notin DOMAIN lsp.errorsAccumulated
    /\ SilencedClasses \subseteq {lsp.drained[i].what : i \in DOMAIN lsp.drained}
    /\ trace[Len(trace)].ev = "write"
    /\ \E i \in Published(trace) : Len(trace[i].doc.params.diagnostics) = 2

\* The notifications the step wrote for file f.
PublishedFor(f) ==
    {i \in Published(trace') \ Published(trace) : trace'[i].doc.params.uri = UriOf(lsp', f)}

\* C18: in a publish cycle every file with a drained diagnostic that is not
\* silenced gets exactly one publishDiagnostics, which carries all the
\* diagnostics accumulated for the file, also when the diagnostics of two
\* files alternate in the batch; updatedErrors is empty after the cycle.
C18_OnePublishPerFile ==
    [][(Cycle /\ pc' = "run")
       => /\ \A f \in DOMAIN lsp'.finalGs.files :
                Kept(f, lsp'.drained) # <<>>
                => /\ Cardinality(PublishedFor(f)) = 1
                   /\ \A i \in PublishedFor(f) :
                         Len(trace'[i].doc.params.diagnostics) = Len(lsp'.errorsAccumulated[f])
          /\ lsp'.updatedErrors = <<>>]_vars

\* The same for the cycles in which no file comes up again in the batch
\* after another file came up.
Interleaved(batch) ==
    \E i, j, k \in DOMAIN batch :
       /\ i < j /\ j < k
       /\ batch[i].what \notin SilencedClasses
       /\ batch[j].what \notin SilencedClasses
       /\ batch[k].what \notin SilencedClasses
       /\ batch[i].loc.file = batch[k].loc.file
       /\ batch[i].loc.file # batch[j].loc.file

C18_OnePublishUnlessInterleaved ==
    [][(Cycle /\ pc' = "run" /\ ~Interleaved(lsp'.drained))
       => /\ \A f \in DOMAIN lsp'.finalGs.files :
                Kept(f, lsp'.drained) # <<>>
                => /\ Cardinality(PublishedFor(f)) = 1
                   /\ \A i \in PublishedFor(f) :
                         Len(trace'[i].doc.params.diagnostics) = Len(lsp'.errorsAccumulated[f])
          /\ lsp'.updatedErrors = <<>>]_vars

\* A cycle drained diagnostics of the payload file, of another file and of
\* the payload file again, and wrote three notifications: two of them for
\* the payload file.
C18_PublishedTwice ==
    /\ pc = "run"
    /\ Interleaved(lsp.drained)
    /\ Len(trace) >= 4
    /\ trace[Len(trace) - 3].ev = "read"
    /\ {Len(trace) - 2, Len(trace) - 1, Len(trace)} \subseteq Published(trace)
    /\ trace[Len(trace)].doc.params.uri = trace[Len(trace) - 2].doc.params.uri
    /\ trace[Len(trace)].doc.params.uri # trace[Len(trace) - 1].doc.params.uri

\* One entry for each line of each section, sections in order and lines in
\* order: the uri and the range of the line and the line's message, or the
\* header of the section when the line has none.
RelatedEntry(loop, section, line) ==
    [k |-> "obj",
     location |-> [uri |-> formattedMessageFilePath(loop, line.loc), range |-> loc2Range(line.loc)],
     message |-> IF line.formattedMessage = "" THEN section.header ELSE line.formattedMessage]

RECURSIVE EntryPerLine(_, _)
EntryPerLine(loop, sections) ==
    IF sections = <<>> THEN <<>>
    ELSE [j \in DOMAIN Head(sections).messages |->
             RelatedEntry(loop, Head(sections), Head(sections).messages[j])]
         \o EntryPerLine(loop, Tail(sections))

\* C19: the diagnostic published for a complex error has a
\* relatedInformation array with one entry for each message line of each
\* section, in section order and then line order, each with the location
\* of its line and the line's message or, when that is empty, the header
\* of the section.
C19_RelatedEntryPerLine ==
    [][Cycle
       => \A f \in DOMAIN lsp'.errorsAccumulated :
             \A i \in PublishedFor(f) :
                \A j \in DOMAIN lsp'.errorsAccumulated[f] :
                   lsp'.errorsAccumulated[f][j].complex
                   => /\ "relatedInformation" \in DOMAIN trace'[i].doc.params.diagnostics[j]
                      /\ trace'[i].doc.params.diagnostics[j].relatedInformation
                            = EntryPerLine(lsp', lsp'.errorsAccumulated[f][j].sections)]_vars

\* The same for the complex errors whose sections have one line each.
OneLineSections(e) == \A s \in DOMAIN e.sections : Len(e.sections[s].messages) <= 1

C19_RelatedEntryPerSection ==
    [][Cycle
       => \A f \in DOMAIN lsp'.errorsAccumulated :
             \A i \in PublishedFor(f) :
                \A j \in DOMAIN lsp'.errorsAccumulated[f] :
                   (lsp'.errorsAccumulated[f][j].complex /\ OneLineSections(lsp'.errorsAccumulated[f][j]))
                   => /\ "relatedInformation" \in DOMAIN trace'[i].doc.params.diagnostics[j]
                      /\ trace'[i].doc.params.diagnostics[j].relatedInformation
                            = EntryPerLine(lsp', lsp'.errorsAccumulated[f][j].sections)]_vars

\* A complex error with a section of two lines was published: its
\* relatedInformation has three entries and the last is null.
C19_NullEntry ==
    /\ pc = "run"
    /\ trace # <<>>
    /\ OnNull(trace[Len(trace)])
    /\ Len(trace[Len(trace)].doc.params.diagnostics[1].relatedInformation) = 3
    /\ trace[Len(trace)].doc.params.diagnostics[1].relatedInformation[3] = Null

\* A complex error with two sections of one line was published with two
\* entries of relatedInformation.
C19_TwoSectionsPublished ==
    /\ pc = "run"
    /\ trace # <<>>
    /\ trace[Len(trace)].ev = "write"
    /\ trace[Len(trace)].doc.method = "textDocument/publishDiagnostics"
    /\ "relatedInformation" \in DOMAIN trace[Len(trace)].doc.params.diagnostics[1]
    /\ Len(trace[Len(trace)].doc.params.diagnostics[1].relatedInformation) = 2
    /\ ~OnNull(trace[Len(trace)])

(***************************************************************************)
(* Claims about the symbol entries, checked under SpecSymbols.             *)
(***************************************************************************)
\* The kind the table gives for a classification.
KindTable ==
    [module |-> 2, class |-> 5, initialize |-> 9, method |-> 6, field |-> 8, staticField |-> 14,
     methodArgument |-> 13, typeMember |-> 26, typeArgument |-> 26]

\* The kind members of the entries for the symbols the table classifies.
RECURSIVE KindsFor(_)
KindsFor(symbols) ==
    IF symbols = <<>> THEN <<>>
    ELSE (IF Head(symbols).kind \in DOMAIN KindTable
          THEN << <<KindTable[Head(symbols).kind]>> >> ELSE <<>>)
         \o KindsFor(Tail(symbols))

SymbolResults ==
    {i \in DOMAIN trace : trace[i].ev = "write" /\ "result" \in trace[i].doc.has
                          /\ trace[i].doc.result.k = "arr"}

\* C20: the result of a documentSymbol request has an entry for each symbol
\* of the file that the table classifies and for no other symbol, and each
\* entry has exactly one kind member, with the value of the table.
C20_OneKindOrNoEntry ==
    \A i \in SymbolResults :
       [j \in DOMAIN trace[i].doc.result.items |-> trace[i].doc.result.items[j].kind]
          = KindsFor(lsp.finalGs.symbols)

\* The same when no symbol is a class that is flagged neither module nor
\* class.
C20_OneKindForFlaggedClasses ==
    (\A n \in DOMAIN lsp.finalGs.symbols : lsp.finalGs.symbols[n].kind # "classOther")
    => \A i \in SymbolResults :
          [j \in DOMAIN trace[i].doc.result.items |-> trace[i].doc.result.items[j].kind]
             = KindsFor(lsp.finalGs.symbols)

\* A documentSymbol request was answered with an entry that has no kind
\* member, for a class flagged neither module nor class, next to an entry
\* with one.
C20_EntryWithoutKind ==
    /\ Len(lsp.finalGs.symbols) = 2
    /\ lsp.finalGs.symbols[1].kind = "classOther"
    /\ lsp.finalGs.symbols[2].kind = "initialize"
    /\ \E i \in SymbolResults :
          /\ Len(trace[i].doc.result.items) = 2
          /\ trace[i].doc.result.items[1].kind = <<>>
          /\ trace[i].doc.result.items[2].kind = <<9>>

(***************************************************************************)
(* Claims about loc2Range, checked under SpecRange.                        *)
(***************************************************************************)
\* C21: the range of a loc has each of start line, start column, end line
\* and end column one less than the loc has, none of them is below zero,
\* the ranges of two locs are equal only when the locs are, and every
\* range with lines and characters from 0 to MaxPos - 1 is the range of a
\* loc.
C21_RangeIsLocMinusOne ==
    trace # <<>>
    => /\ \A n \in 1..2 :
             /\ trace[n].start.line = lsp[n].begin.line - 1
             /\ trace[n].start.character = lsp[n].begin.column - 1
             /\ trace[n]["end"].line = lsp[n]["end"].line - 1
             /\ trace[n]["end"].character = lsp[n]["end"].column - 1
             /\ trace[n].start.line >= 0 /\ trace[n].start.character >= 0
             /\ trace[n]["end"].line >= 0 /\ trace[n]["end"].character >= 0
       /\ trace[1] = trace[2] => lsp[1] = lsp[2]
       /\ \A sl, sc, el, ec \in 0..(MaxPos - 1) :
             \E loc \in Locs :
                loc2Range(loc) = [start |-> [line |-> sl, character |-> sc],
                                  end |-> [line |-> el, character |-> ec]]

\* Two locs that differ in the start column only were converted, one of
\* them with the start at line 1, column 1.
C21_Witness ==
    /\ trace # <<>>
    /\ lsp[1].begin = Pos(1, 1)
    /\ lsp[2].begin = Pos(1, 2)
    /\ lsp[1]["end"] = lsp[2]["end"]
    /\ trace[1] # trace[2]

(***************************************************************************)
(* Claims about the reanalysis, checked under SpecLSP.                     *)
(***************************************************************************)
\* The trees of indexed that are there.
IsTree(tr) == tr # NoTree

Cached(indexed) == SelectSeq(indexed, IsTree)

\* The files an edit document d makes the loop enter: the file of a
\* didChange under the root, the files of the entries under the root of a
\* reply that the loop awaits.
ChangeSet(loop, d) ==
    IF Calls(d, "textDocument/didChange")
    THEN IF startsWith(d.params.uri, loop.rootUri)
         THEN <<File(remoteName2Local(loop, d.params.uri), d.params.contentChanges[1].text, "Normal")>>
         ELSE <<>>
    ELSE IF "result" \in d.has /\ d.id \in DOMAIN loop.awaitingResponse
    THEN EditedFiles(loop, d.result.items)
    ELSE <<>>

\* C22: after a step that ran a slow path the accumulators hold what the
\* run's own drain put there and nothing older; the working vector handed
\* to resolve is the deep copies of the cached trees followed by the trees
\* index made for the changed files, whose file refs are the ones the
\* changed files got last in initialGS; finalGs has every file of
\* initialGS, the changed files included, and the symbols are defined in
\* finalGs; the cache itself is as reIndex left it.
C22_SlowPathOrder ==
    [][(Cycle /\ Len(trace') > Len(trace))
       => LET d == trace'[Len(trace) + 1].doc
              changed == ChangeSet(lsp, d)
              cached == Cached(lsp'.indexed)
              n == Len(lsp'.initialGS.files)
          IN /\ \A f \in DOMAIN lsp'.errorsAccumulated :
                   lsp'.errorsAccumulated[f] = Kept(f, lsp'.drained)
             /\ Len(lsp'.indexedCopies) = Len(cached) + Len(changed)
             /\ \A i \in DOMAIN cached :
                   lsp'.indexedCopies[i] = [cached[i] EXCEPT !.by = "deepCopy"]
             /\ \A i \in DOMAIN changed :
                   /\ lsp'.indexedCopies[Len(cached) + i].by = "index"
                   /\ lsp'.indexedCopies[Len(cached) + i].file = n - Len(changed) + i
                   /\ lsp'.initialGS.files[n - Len(changed) + i] = changed[i]
             /\ lsp'.finalGs.files = lsp'.initialGS.files
             /\ Len(lsp'.finalGs.symbols) = Len(lsp'.finalGs.files)
             /\ \A i \in DOMAIN lsp'.indexed : lsp'.indexed[i].by = "index"
             /\ Calls(d, "initialized") \/ lsp'.indexed = lsp.indexed]_vars

\* A slow path ran for an edit while a tree was cached: the working
\* vector is the copy of the cached tree and then the tree of the changed
\* file, which finalGs holds as its last file.
C22_Witness ==
    /\ pc = "run"
    /\ Len(lsp.indexedCopies) = 2
    /\ lsp.indexedCopies[1].by = "deepCopy"
    /\ lsp.indexedCopies[2].by = "index"
    /\ lsp.indexedCopies[2].file = Len(lsp.finalGs.files)
    /\ Len(lsp.finalGs.files) >= 3
    /\ lsp.errorsAccumulated # <<>>

\* The files of the diagnostics of a batch that are not silenced, a file
\* that comes up several times in a row taken once.
RECURSIVE Updated(_, _)
Updated(batch, prev) ==
    IF batch = <<>> THEN <<>>
    ELSE IF Head(batch).what \in SilencedClasses THEN Updated(Tail(batch), prev)
    ELSE IF Head(batch).loc.file = prev THEN Updated(Tail(batch), prev)
    ELSE <<Head(batch).loc.file>> \o Updated(Tail(batch), Head(batch).loc.file)

\* C23: a step on a didChange whose uri is under the root runs one slow
\* path, whose change set is one file with the path behind rootUri + "/"
\* and the text of the first content change, and after it one publish
\* cycle: the queue is drained, every document written is a
\* publishDiagnostics of the cycle, and the loop reads on.
C23_DidChangeReanalysesOnce ==
    [][(/\ Len(trace') > Len(trace)
        /\ trace'[Len(trace) + 1].ev = "read"
        /\ Calls(trace'[Len(trace) + 1].doc, "textDocument/didChange")
        /\ UnderRoot(lsp, trace'[Len(trace) + 1].doc.params.uri)
        /\ pc' = "run")
       => LET d == trace'[Len(trace) + 1].doc
              upd == Updated(lsp'.drained, 0)
          IN /\ lsp'.slowPaths = lsp.slowPaths + 1
             /\ lsp'.initialGS.files
                   = Append(lsp.initialGS.files,
                            File(SubSeq(d.params.uri, Len(lsp.rootUri) + 2, Len(d.params.uri)),
                                 d.params.contentChanges[1].text, "Normal"))
             /\ lsp'.finalGs.files = lsp'.initialGS.files
             /\ lsp'.initialGS.errorQueue = <<>>
             /\ lsp'.updatedErrors = <<>>
             /\ Len(trace') = Len(trace) + 1 + Len(upd)
             /\ \A i \in DOMAIN upd :
                   /\ Len(trace) + 1 + i \in Published(trace')
                   /\ trace'[Len(trace) + 1 + i].doc.params.uri = UriOf(lsp', upd[i])]_vars

\* After initialize, a didChange under the root with two content changes
\* was reanalysed and published: the file entered has the text of the
\* first.
C23_Witness ==
    /\ pc = "run"
    /\ lsp.rootUri = RootUri
    /\ Len(trace) >= 2
    /\ trace[Len(trace) - 1].ev = "read"
    /\ Calls(trace[Len(trace) - 1].doc, "textDocument/didChange")
    /\ Len(trace[Len(trace) - 1].doc.params.contentChanges) = 2
    /\ trace[Len(trace)].ev = "write"
    /\ lsp.finalGs.files[Len(lsp.finalGs.files)] = File(<<"a">>, "t", "Normal")

(***************************************************************************)
(* Claims about the deferred edits, checked under SpecLSPAnyInput.         *)
(***************************************************************************)
IsWriteEvent(e) == e.ev = "write"

\* The documents a step wrote.
WrittenBy(tr, from) == SelectSeq(SubSeq(tr, from + 1, Len(tr)), IsWriteEvent)

\* The files of the entries of a reply whose URIs are under the root.
RECURSIVE FilesUnderRoot(_, _)
FilesUnderRoot(loop, edits) ==
    IF edits = <<>> THEN <<>>
    ELSE (IF UnderRoot(loop, Head(edits).uri)
          THEN <<File(SubSeq(Head(edits).uri, Len(loop.rootUri) + 2, Len(Head(edits).uri)),
                      Head(edits).content, "Normal")>>
          ELSE <<>>)
         \o FilesUnderRoot(loop, Tail(edits))

\* C24: a step on workspace/didChangeWatchedFiles writes one readFile
\* request, adds one pending entry under the id of that request and leaves
\* the rest of the loop as it was, nothing published; a step on a result
\* reply that the loop awaits removes the entry and runs one slow path,
\* whose change set is the files of the reply's entries under the root, in
\* the order of the reply; a step on an error reply that the loop awaits
\* removes the entry, runs no slow path and writes nothing.
C24_WatchedFilesDeferred ==
    [][(Len(trace') > Len(trace) /\ trace'[Len(trace) + 1].ev = "read")
       => LET d == trace'[Len(trace) + 1].doc
              written == WrittenBy(trace', Len(trace) + 1)
              n == Len(lsp'.initialGS.files)
          IN /\ Calls(d, "workspace/didChangeWatchedFiles")
                => /\ pc' = "run"
                   /\ Len(written) = 1
                   /\ written[1].doc.method = "readFile"
                   /\ written[1].doc.params = d.params
                   /\ written[1].doc.id \notin DOMAIN lsp.awaitingResponse
                   /\ DOMAIN lsp'.awaitingResponse
                         = DOMAIN lsp.awaitingResponse \cup {written[1].doc.id}
                   /\ lsp' = [lsp EXCEPT !.requestCounter = lsp'.requestCounter,
                                         !.awaitingResponse = lsp'.awaitingResponse]
             /\ ("result" \in d.has /\ "id" \in d.has /\ d.id \in DOMAIN lsp.awaitingResponse
                 /\ lsp.rootUri # <<>>)
                => LET want == FilesUnderRoot(lsp, d.result.items)
                   IN /\ DOMAIN lsp'.awaitingResponse = DOMAIN lsp.awaitingResponse \ {d.id}
                      /\ lsp'.slowPaths = lsp.slowPaths + 1
                      /\ Len(lsp'.indexedCopies) = Len(Cached(lsp'.indexed)) + Len(want)
                      /\ lsp'.initialGS.files = lsp.initialGS.files \o want
                      /\ \A i \in DOMAIN want :
                            lsp'.indexedCopies[Len(Cached(lsp'.indexed)) + i]
                               = Tree(n - Len(want) + i, Indexed("none"))
                      /\ \A i \in DOMAIN written :
                            written[i].doc.method = "textDocument/publishDiagnostics"
             /\ ("error" \in d.has /\ "result" \notin d.has /\ "id" \in d.has
                 /\ d.id \in DOMAIN lsp.awaitingResponse)
                => /\ pc' = "run"
                   /\ DOMAIN lsp'.awaitingResponse = DOMAIN lsp.awaitingResponse \ {d.id}
                   /\ lsp' = [lsp EXCEPT !.awaitingResponse = lsp'.awaitingResponse]
                   /\ written = <<>>]_vars

\* The same for the replies whose entries either are under the root or do
\* not begin with the characters of rootUri.
C24_WatchedFilesDeferredWellFormed ==
    [][(/\ Len(trace') > Len(trace)
        /\ trace'[Len(trace) + 1].ev = "read"
        /\ "result" \in trace'[Len(trace) + 1].doc.has
        /\ "id" \in trace'[Len(trace) + 1].doc.has
        /\ trace'[Len(trace) + 1].doc.id \in DOMAIN lsp.awaitingResponse
        /\ lsp.rootUri # <<>>
        /\ \A u \in EditUris(trace'[Len(trace) + 1].doc) :
              UnderRoot(lsp, u) \/ ~startsWith(u, lsp.rootUri))
       => LET d == trace'[Len(trace) + 1].doc
              want == FilesUnderRoot(lsp, d.result.items)
          IN /\ lsp'.slowPaths = lsp.slowPaths + 1
             /\ lsp'.initialGS.files = lsp.initialGS.files \o want
             /\ Len(lsp'.indexedCopies) = Len(Cached(lsp'.indexed)) + Len(want)]_vars

\* After initialize and a didChangeWatchedFiles, the reply with an entry
\* for UriSibling and one for UriUnderRoot was applied: two files were
\* entered, the first with the path "/a".
C24_SiblingEntryApplied ==
    /\ pc = "run"
    /\ lsp.rootUri = RootUri
    /\ lsp.slowPaths = 1
    /\ Len(lsp.initialGS.files) = 3
    /\ lsp.initialGS.files[2] = File(<<"/", "a">>, "t3", "Normal")
    /\ lsp.initialGS.files[3] = File(<<"a">>, "t2", "Normal")
    /\ lsp.awaitingResponse = <<>>

(***************************************************************************)
(* Claims about the cache of indexed trees, checked under SpecLSP.         *)
(***************************************************************************)
\* The file refs that have a tree in the cache.
CachedRefs(indexed) == {i - 1 : i \in {j \in DOMAIN indexed : indexed[j] # NoTree}}

\* C25: a step that does not run reIndex (any step but the one on
\* initialized) leaves every slot of indexed as it was; the working vector
\* of a slow path is the copies of the trees the cache holds followed by
\* one tree for each file of this run's change set, and it has no tree for
\* a file that an earlier edit entered.
C25_CacheOnlyByReIndex ==
    [][Len(trace') > Len(trace)
       => LET d == trace'[Len(trace) + 1].doc
              changed == ChangeSet(lsp, d)
              n == Len(lsp.initialGS.files)
          IN /\ Calls(d, "initialized") \/ lsp'.indexed = lsp.indexed
             /\ (Cycle /\ Calls(d, "initialized"))
                => lsp'.indexedCopies = CopyTrees(lsp'.indexed)
             /\ (Cycle /\ ~Calls(d, "initialized"))
                => /\ lsp'.indexedCopies
                         = CopyTrees(lsp.indexed)
                           \o [i \in 1..Len(changed) |-> Tree(n + i, Indexed("none"))]
                   /\ \A f \in (1..n) \ CachedRefs(lsp.indexed) :
                         \A i \in DOMAIN lsp'.indexedCopies : lsp'.indexedCopies[i].file # f]_vars

\* After initialized and two edits, the working vector of the third slow
\* path is the copy of the tree cached by reIndex and the tree of the
\* file of the second edit: the file of the first edit, which initialGS
\* holds, has no tree in it and none in the cache.
C25_Witness ==
    /\ pc = "run"
    /\ lsp.slowPaths = 3
    /\ Len(lsp.initialGS.files) = 4
    /\ CachedRefs(lsp.indexed) = {2}
    /\ Len(lsp.indexedCopies) = 2
    /\ lsp.indexedCopies[1] = [Tree(2, Indexed("none")) EXCEPT !.by = "deepCopy"]
    /\ lsp.indexedCopies[2] = Tree(4, Indexed("none"))

(***************************************************************************)
(* Claims about the files a cycle publishes, checked under SpecPublish.    *)
(***************************************************************************)
\* The publishDiagnostics documents a step wrote, in order.
IsPublish(e) == e.ev = "write" /\ e.doc.method = "textDocument/publishDiagnostics"

NewlyPublished == SelectSeq(SubSeq(trace', Len(trace) + 1, Len(trace')), IsPublish)

\* C26: a step writes publishDiagnostics only when it ran a slow path, and
\* then only for files for which the drain after that slow path kept a
\* diagnostic that is not silenced, in the order in which they came up;
\* no notification has an empty diagnostics list, and a uri published in
\* an earlier cycle gets none when the batch has nothing for its file.
C26_PublishedOnlyWhenDrained ==
    [][LET new == NewlyPublished
           upd == Updated(lsp'.drained, 0)
       IN /\ new # <<>> => Cycle
          /\ Len(new) <= Len(upd)
          /\ \A i \in DOMAIN new :
                /\ Kept(upd[i], lsp'.drained) # <<>>
                /\ new[i].doc.params.uri = UriOf(lsp', upd[i])
                /\ new[i].doc.params.diagnostics # <<>>
          /\ \A j \in Published(trace) :
                (\A f \in DOMAIN lsp'.finalGs.files :
                    UriOf(lsp', f) = trace[j].doc.params.uri => Kept(f, lsp'.drained) = <<>>)
                => \A i \in DOMAIN new : new[i].doc.params.uri # trace[j].doc.params.uri]_vars

\* The first cycle published the diagnostics of the first file; the second
\* reanalysis found none for it and one for the last file: the step wrote
\* one notification, for the last file, and none for the first.
C26_Witness ==
    /\ pc = "run"
    /\ lsp.slowPaths = 2
    /\ Len(trace) >= 4
    /\ IsPublish(trace[Len(trace)])
    /\ trace[Len(trace) - 1].ev = "read"
    /\ IsPublish(trace[Len(trace) - 2])
    /\ trace[Len(trace) - 2].doc.params.uri = UriOf(lsp, 1)
    /\ trace[Len(trace)].doc.params.uri = UriOf(lsp, Len(lsp.finalGs.files))
    /\ Kept(1, lsp.drained) = <<>>
    /\ lsp.errorsAccumulated = Put(<<>>, Len(lsp.finalGs.files), lsp.errorsAccumulated[Len(lsp.finalGs.files)])

(***************************************************************************)
(* More claims about deepCopy, checked under SpecCopy.                     *)
(***************************************************************************)
\* C27: every call of deepCopy returns, with a copy or with nullptr: on no
\* tree does the recursion go deeper than the tree has nodes.
C27_DeepCopyTerminates ==
    /\ pc # "crashed"
    /\ last.op = "deepCopy" => last.st \in {"ok", "caught"}

\* The same for the trees in which no TreeRef is reached again from the
\* tree it refers to.
OnCycle(h, r) == h[r].tree # nullptr /\ r \in Reach(h, h[r].tree)

C27_TerminatesWithoutCycle ==
    (last.op = "deepCopy"
     /\ \A r \in Reach(last.before, last.src) :
           last.before[r].tag = "TreeRef" /\ OnCycle(last.before, r) => last.before[r].tree = last.src)
    => last.st \in {"ok", "caught"}

\* deepCopy was called on an Array whose child is a TreeRef that refers to
\* itself, and the recursion did not end.
C27_SelfRefOverflows ==
    /\ pc = "crashed"
    /\ last.st = "overflow"
    /\ heap[root].tag = "Array"
    /\ \E r \in {heap[root].kids[1][j] : j \in DOMAIN heap[root].kids[1]} :
          heap[r].tag = "TreeRef" /\ heap[r].tree = r

\* deepCopy was called on an Array whose first child is an Array with a
\* TreeRef that refers to that inner Array, and the recursion did not end.
C27_AncestorRefOverflows ==
    /\ pc = "crashed"
    /\ last.st = "overflow"
    /\ heap[root].tag = "Array"
    /\ \E m \in {heap[root].kids[1][j] : j \in DOMAIN heap[root].kids[1]} :
          /\ heap[m].tag = "Array"
          /\ \E r \in {heap[m].kids[1][j] : j \in DOMAIN heap[m].kids[1]} :
                heap[r].tag = "TreeRef" /\ heap[r].tree = m

\* The number of nodes of the tree at a once every TreeRef of it is
\* replaced by the tree it refers to.
RECURSIVE ExpandedSize(_, _, _)
RECURSIVE ExpandedSizeAll(_, _, _)
ExpandedSize(h, a, fuel) ==
    IF a = nullptr \/ fuel = 0 THEN 0
    ELSE IF h[a].tag = "TreeRef" THEN ExpandedSize(h, h[a].tree, fuel - 1)
    ELSE 1 + ExpandedSizeAll(h, KidsOf(h[a]), fuel - 1)

ExpandedSizeAll(h, ids, fuel) ==
    IF ids = <<>> THEN 0
    ELSE ExpandedSize(h, Head(ids), fuel) + ExpandedSizeAll(h, Tail(ids), fuel)

\* C28: a copy holds no TreeRef; it is the source with every TreeRef
\* replaced by the tree it refers to, made of nodes that were not on the
\* heap before the call, none of them a node of the source or of a tree
\* the source refers to, and none of them reached twice: it has as many
\* nodes as that expansion, one copy of a target for each TreeRef to it.
C28_TreeRefsExpandedIntoOwnedCopies ==
    (last.op = "deepCopy" /\ last.st = "ok")
    => /\ ~HasTreeRef(heap, last.id)
       /\ ExpandEq(heap, last.src, last.id, Fuel)
       /\ Disjoint(Reach(heap, last.id), DOMAIN last.before)
       /\ Disjoint(Reach(heap, last.id), Reach(heap, last.src))
       /\ Cardinality(Reach(heap, last.id)) = ExpandedSize(heap, last.src, Fuel)
       /\ \A n \in DOMAIN last.before : heap[n] = last.before[n]

\* An Array of two TreeRefs that refer to the same Literal stored
\* elsewhere was copied: the copy is an Array of two Literals, different
\* nodes, neither of them the Literal referred to.
C28_Witness ==
    /\ last.op = "deepCopy" /\ last.st = "ok" /\ last.src = root
    /\ heap[root].tag = "Array"
    /\ Len(heap[root].kids[1]) = 2
    /\ heap[heap[root].kids[1][1]].tag = "TreeRef"
    /\ heap[heap[root].kids[1][2]].tag = "TreeRef"
    /\ heap[heap[root].kids[1][1]].tree = heap[heap[root].kids[1][2]].tree
    /\ heap[heap[heap[root].kids[1][1]].tree].tag = "Literal"
    /\ heap[heap[last.id].kids[1][1]].tag = "Literal"
    /\ heap[heap[last.id].kids[1][2]].tag = "Literal"
    /\ heap[last.id].kids[1][1] # heap[last.id].kids[1][2]
    /\ heap[heap[root].kids[1][1]].tree \notin Reach(heap, last.id)

(***************************************************************************)
(* Claims about documentSymbol and finalGs, checked under SpecLSP.         *)
(***************************************************************************)
\* The step read a textDocument/documentSymbol request.
ReadsDocumentSymbol ==
    /\ Len(trace') > Len(trace)
    /\ trace'[Len(trace) + 1].ev = "read"
    /\ Calls(trace'[Len(trace) + 1].doc, "textDocument/documentSymbol")

\* The step ended with the result for the request it read.
AnsweredWithResult ==
    /\ pc' = "run"
    /\ Len(trace') = Len(trace) + 2
    /\ trace'[Len(trace) + 2].ev = "write"
    /\ "result" \in trace'[Len(trace) + 2].doc.has
    /\ "error" \notin trace'[Len(trace) + 2].doc.has
    /\ trace'[Len(trace) + 2].doc.id = trace'[Len(trace) + 1].doc.id

\* C29: whenever a documentSymbol request is dispatched, a slow path has
\* run and finalGs is there, and the request is answered with a result.
C29_FinalGsExistsWhenRead ==
    [][ReadsDocumentSymbol => (~lsp.finalGs.null /\ AnsweredWithResult)]_vars

\* The same for the requests dispatched after a slow path.
C29_AnsweredAfterSlowPath ==
    [][(ReadsDocumentSymbol /\ lsp.slowPaths > 0) => (~lsp.finalGs.null /\ AnsweredWithResult)]_vars

\* initialize was answered and the documentSymbol request after it read
\* the finalGs that no slow path had made: the loop is dead and the
\* request has no response.
C29_SymbolsBeforeAnalysis ==
    /\ pc = "crashed"
    /\ lsp.finalGs.null
    /\ lsp.slowPaths = 0
    /\ Len(trace) = 3
    /\ Calls(trace[1].doc, "initialize")
    /\ trace[2].ev = "write"
    /\ trace[3].ev = "read"
    /\ Calls(trace[3].doc, "textDocument/documentSymbol")

(***************************************************************************)
(* Claims about the symbols of a file, checked under SpecSymbolsAnyUri.    *)
(***************************************************************************)
\* The files of gs that are no tombstones and have the path of uri behind
\* rootUri + "/".
Matching(loop, uri) ==
    {f \in DOMAIN loop.finalGs.files :
        /\ UnderRoot(loop, uri)
        /\ loop.finalGs.files[f].source_type # "TombStone"
        /\ loop.finalGs.files[f].path = SubSeq(uri, Len(loop.rootUri) + 2, Len(uri))}

\* The symbols defined in one of the files fs, in index order.
RECURSIVE SymbolsIn(_, _)
SymbolsIn(symbols, fs) ==
    IF symbols = <<>> THEN <<>>
    ELSE (IF Head(symbols).definitionLoc.file \in fs THEN <<Head(symbols)>> ELSE <<>>)
         \o SymbolsIn(Tail(symbols), fs)

\* The entries of the symbols that are not suppressed.
RECURSIVE EntriesOf(_, _)
EntriesOf(loop, symbols) ==
    IF symbols = <<>> THEN <<>>
    ELSE (IF symbolRef2SymbolInformation(loop, Head(symbols)) = Null THEN <<>>
          ELSE <<symbolRef2SymbolInformation(loop, Head(symbols))>>)
         \o EntriesOf(loop, Tail(symbols))

First(fs) == IF fs = {} THEN {} ELSE {CHOOSE f \in fs : \A g \in fs : f <= g}

\* C30: a documentSymbol request is answered with the entries of the
\* symbols that are not suppressed and are defined in the first file that
\* matches the uri, in index order, and with the empty array when no file
\* matches or the uri is not under the root.
C30_SymbolsOfFirstMatch ==
    [][ReadsDocumentSymbol
       => /\ AnsweredWithResult
          /\ trace'[Len(trace) + 2].doc.result
                = [k |-> "arr",
                   items |-> EntriesOf(lsp, SymbolsIn(lsp.finalGs.symbols,
                                                      First(Matching(lsp, trace'[Len(trace) + 1].doc.params.uri))))]]_vars

\* The same for the requests whose uri matches a file, and for all
\* requests when every symbol has a definition file.
C30_SymbolsOfFirstMatchWhenMatched ==
    [][(/\ ReadsDocumentSymbol
        /\ \/ Matching(lsp, trace'[Len(trace) + 1].doc.params.uri) # {}
           \/ \A idx \in DOMAIN lsp.finalGs.symbols : lsp.finalGs.symbols[idx].definitionLoc.file # 0)
       => /\ AnsweredWithResult
          /\ trace'[Len(trace) + 2].doc.result
                = [k |-> "arr",
                   items |-> EntriesOf(lsp, SymbolsIn(lsp.finalGs.symbols,
                                                      First(Matching(lsp, trace'[Len(trace) + 1].doc.params.uri))))]]_vars

\* A request for a uri that is not under the root was answered with an
\* entry, for a class that has no definition file.
C30_NoFileSymbolReturned ==
    /\ pc = "run"
    /\ Len(trace) = 2
    /\ trace[1].doc.params.uri = UriElsewhere
    /\ trace[2].ev = "write"
    /\ Len(trace[2].doc.result.items) = 1
    /\ lsp.finalGs.symbols[1].definitionLoc.file = 0

\* A request for a uri of the file a, which two files of finalGs have as
\* path, was answered with the symbol of the first of them and not the
\* symbol of the second.
C30_FirstMatchReturned ==
    /\ pc = "run"
    /\ Len(trace) = 2
    /\ trace[1].doc.params.uri = UriUnderRoot
    /\ trace[2].ev = "write"
    /\ Len(trace[2].doc.result.items) = 1
    /\ Len(lsp.finalGs.symbols) = 2
    /\ lsp.finalGs.symbols[1].definitionLoc.file = 3
    /\ lsp.finalGs.symbols[2].definitionLoc.file = 2
    /\ lsp.finalGs.symbols[1].kind = "class"
    /\ lsp.finalGs.symbols[2].kind = "class"

====
